---- MODULE Spec2Model ----
(***************************************************************************)
(* A model of the table engine of ad-data-explorer:                        *)
(*   custom_csv_parser/csv_parser.py  (CSVParser: tokenizer and parser)    *)
(*   custom_csv_parser/dataframe.py   (Series, DataFrame, DataFrameGroupBy)*)
(*                                                                         *)
(* Text is a sequence of one-character strings; a cell or a column name    *)
(* that comes out of the parser is the TLA+ string of those characters.    *)
(* A Python list is an object on a heap (an address holding a sequence),   *)
(* so that two DataFrames holding the same list is a state of the model.   *)
(***************************************************************************)
EXTENDS Integers, Sequences, FiniteSets, TLC

VARIABLES
    tok,      \* CSVParser._parse_line, one character per step
    parser,   \* CSVParser.parse: the file's lines, and the outcome of the call
    jcall,    \* DataFrame.join: the two frames, the arguments, the outcome
    heap,     \* the list objects: address -> sequence of cells
    frames,   \* the DataFrame objects: [data: name -> address, columns]
    dicts,    \* the dict the caller holds: the one to_dict returned last
    made,     \* made[i]: the call that returned frames[i]
    fcall,    \* a DataFrame and the calls of a chain made on it, with their outcomes
    gcall,    \* a DataFrame, its groupby and agg, and the groupby of the result
    filter_page,  \* st.session_state of the filtering page
    agg_page      \* st.session_state of the aggregation page, and what a run shows

vars == <<tok, parser, jcall, heap, frames, dicts, made, fcall, gcall, filter_page, agg_page>>

(***************************************************************************)
(* Sequences                                                               *)
(***************************************************************************)
Range(s) == {s[i] : i \in 1..Len(s)}

SeqsUpTo(S, n) == UNION {[1..k -> S] : k \in 0..n}

Min(a, b) == IF a < b THEN a ELSE b

\* Python's `x in list`
Has(s, x) == \E i \in 1..Len(s) : s[i] = x

\* the characters of a text as one string
RECURSIVE Str(_)
Str(cs) == IF cs = <<>> THEN "" ELSE Head(cs) \o Str(Tail(cs))

(***************************************************************************)
(* csv_parser.py: the tokenizer                                            *)
(***************************************************************************)
QUOTE == "\""

NL == "\n"

\* what str.strip() removes, among the characters of the model
Whitespace == {" ", NL}

RECURSIVE LStrip(_, _)
LStrip(cs, S) ==
    IF cs # <<>> /\ Head(cs) \in S THEN LStrip(Tail(cs), S) ELSE cs

RECURSIVE RStrip(_, _)
RStrip(cs, S) ==
    IF cs # <<>> /\ cs[Len(cs)] \in S
    THEN RStrip(SubSeq(cs, 1, Len(cs) - 1), S)
    ELSE cs

\* str.strip(chars)
Strip(cs, S) == RStrip(LStrip(cs, S), S)

\* value.strip().strip('"')
clean_value(value) == Strip(Strip(value, Whitespace), {QUOTE})

\* values = [], current_value = "", in_quotes = False
TokStart == [values |-> <<>>, current_value |-> <<>>, in_quotes |-> FALSE]

\* one turn of `for char in line`
\* a tokenizer that splits at every separator, quoted or not
parse_char_any_separator(st, char, separator) ==
    IF char = QUOTE
    THEN [st EXCEPT !.in_quotes = ~st.in_quotes]
    ELSE IF char = separator
    THEN [st EXCEPT !.values = Append(@, clean_value(st.current_value)),
                    !.current_value = <<>>]
    ELSE [st EXCEPT !.current_value = Append(@, char)]

parse_char(st, char, separator) ==
    IF char = QUOTE
    THEN [st EXCEPT !.in_quotes = ~st.in_quotes]
    ELSE IF char = separator /\ ~st.in_quotes
    THEN [st EXCEPT !.values = Append(@, clean_value(st.current_value)),
                    !.current_value = <<>>]
    ELSE [st EXCEPT !.current_value = Append(@, char)]

\* values.append(self._clean_value(current_value)) after the loop
parse_end(st) == Append(st.values, clean_value(st.current_value))

RECURSIVE parse_loop(_, _, _)
parse_loop(st, line, separator) ==
    IF line = <<>>
    THEN st
    ELSE parse_loop(parse_char(st, Head(line), separator), Tail(line), separator)

\* CSVParser._parse_line: the fields of a line, each a text
parse_line(line, separator) == parse_end(parse_loop(TokStart, line, separator))

(***************************************************************************)
(* The tokenizer as a machine: one character per step                      *)
(***************************************************************************)
MaxLineLen == 5

TokChars == {"a", ",", QUOTE, " "}

\* self.separator: the default, and a file whose fields are separated by blanks
Separators == {",", " "}

TokIdle ==
    [pc |-> "idle", line |-> <<>>, separator |-> ",", pos |-> 1,
     st |-> TokStart, values |-> <<>>]

\* a line as readlines() gives it (ending in a newline) or as parse() gives the
\* header (stripped)
TokLines ==
    {body \o tail : body \in SeqsUpTo(TokChars, MaxLineLen), tail \in {<<>>, <<NL>>}}

TokInit ==
    tok \in {[TokIdle EXCEPT !.pc = "scan", !.line = l, !.separator = s] :
                l \in TokLines, s \in Separators}

TokAdvance ==
    /\ UNCHANGED <<gcall, filter_page, agg_page, parser, jcall, heap, frames, dicts, made, fcall>>
    /\ tok' = [tok EXCEPT !.st = parse_char(tok.st, tok.line[tok.pos], tok.separator),
                       !.pos = tok.pos + 1]

TokQuote ==
    /\ tok.pc = "scan" /\ tok.pos <= Len(tok.line)
    /\ tok.line[tok.pos] = QUOTE
    /\ TokAdvance

TokSeparator ==
    /\ tok.pc = "scan" /\ tok.pos <= Len(tok.line)
    /\ tok.line[tok.pos] # QUOTE
    /\ tok.line[tok.pos] = tok.separator /\ ~tok.st.in_quotes
    /\ TokAdvance

TokAccumulate ==
    /\ tok.pc = "scan" /\ tok.pos <= Len(tok.line)
    /\ tok.line[tok.pos] # QUOTE
    /\ ~(tok.line[tok.pos] = tok.separator /\ ~tok.st.in_quotes)
    /\ TokAdvance

TokFinish ==
    /\ tok.pc = "scan" /\ tok.pos > Len(tok.line)
    /\ tok' = [tok EXCEPT !.pc = "done", !.values = parse_end(tok.st)]
    /\ UNCHANGED <<gcall, filter_page, agg_page, parser, jcall, heap, frames, dicts, made, fcall>>



(***************************************************************************)
(* Cells: the Python values a column holds                                 *)
(***************************************************************************)
\* a str
Text(s) == [t |-> "str", s |-> s, n |-> 0, d |-> 1]

\* None
None == [t |-> "NoneType", s |-> "", n |-> 0, d |-> 1]

\* an int
IntCell(n) == [t |-> "int", s |-> "", n |-> n, d |-> 1]

\* a float, as the fraction n/d in lowest terms
FloatCell(n, d) == [t |-> "float", s |-> "", n |-> n, d |-> d]

IsNumber(c) == c.t \in {"int", "float"}

\* Python's ==, which is also what dict and set keys go by
PyEq(a, b) ==
    IF IsNumber(a) /\ IsNumber(b)
    THEN a.n * b.d = b.n * a.d
    ELSE a = b

\* d[k] = v on a dict
DictSet(d, k, v) == [x \in DOMAIN d \cup {k} |-> IF x = k THEN v ELSE d[x]]

(***************************************************************************)
(* dataframe.py: DataFrame.__init__                                        *)
(***************************************************************************)
\* {} : a dict with no key
EmptyDict == <<>>

\* DataFrame(data, columns): data maps a column name to its list of cells
DataFrame(data, columns) ==
    [data |-> data,
     columns |-> columns,
     shape |-> IF DOMAIN data # {} /\ columns # <<>>
               THEN <<Len(data[columns[1]]), Len(columns)>>
               ELSE <<0, 0>>]

\* the place of a DataFrame in the outcome of a call that raised
NoFrame == DataFrame(EmptyDict, <<>>)

(***************************************************************************)
(* csv_parser.py: CSVParser.parse                                          *)
(***************************************************************************)
ParseOk(df) ==
    [kind |-> "ok", df |-> df, row |-> 0, expected |-> 0, found |-> 0]

\* ValueError(f"Row {i+2}: Expected {num_columns} columns, but found {len(values)}")
ParseValueError(row, expected, found) ==
    [kind |-> "ValueError", df |-> NoFrame, row |-> row, expected |-> expected,
     found |-> found]

ParseFileNotFound ==
    [kind |-> "FileNotFoundError", df |-> NoFrame, row |-> 0, expected |-> 0,
     found |-> 0]

\* the fields of a line as strings
line_values(line, separator) ==
    LET fs == parse_line(line, separator) IN [i \in 1..Len(fs) |-> Str(fs[i])]

\* the fields of a data line as cells: every parsed cell is a str
line_cells(line, separator) ==
    LET fs == line_values(line, separator) IN [i \in 1..Len(fs) |-> Text(fs[i])]

\* for col_idx, col_name in enumerate(columns): data[col_name].append(values[col_idx])
RECURSIVE append_values(_, _, _, _)
append_values(data, columns, values, col_idx) ==
    IF col_idx > Len(columns)
    THEN data
    ELSE append_values([data EXCEPT ![columns[col_idx]] = Append(@, values[col_idx])],
                       columns, values, col_idx + 1)

\* a parser that leaves out the rows of another length and goes on
RECURSIVE parse_rows_skipping(_, _, _, _, _)
parse_rows_skipping(lines, i, columns, data, separator) ==
    IF i + 2 > Len(lines)
    THEN ParseOk(DataFrame(data, columns))
    ELSE LET line == lines[i + 2]
             values == line_cells(line, separator)
         IN  IF Strip(line, Whitespace) = <<>> \/ Len(values) # Len(columns)
             THEN parse_rows_skipping(lines, i + 1, columns, data, separator)
             ELSE parse_rows_skipping(lines, i + 1, columns,
                                      append_values(data, columns, values, 1), separator)

\* a parser that numbers the rows without the blank lines it skipped
RECURSIVE parse_rows_numbering_kept(_, _, _, _, _)
parse_rows_numbering_kept(lines, i, columns, data, separator) ==
    IF i + 2 > Len(lines)
    THEN ParseOk(DataFrame(data, columns))
    ELSE LET line == lines[i + 2] IN
         IF Strip(line, Whitespace) = <<>>
         THEN parse_rows_numbering_kept(lines, i + 1, columns, data, separator)
         ELSE LET values == line_cells(line, separator)
                  skipped == Cardinality({k \in 2..(i + 1) :
                                             Strip(lines[k], Whitespace) = <<>>})
              IN  IF Len(values) # Len(columns)
                  THEN ParseValueError(i + 2 - skipped, Len(columns), Len(values))
                  ELSE parse_rows_numbering_kept(lines, i + 1, columns,
                                                 append_values(data, columns, values, 1),
                                                 separator)

\* for i, line in enumerate(lines[1:]): ... ; return DataFrame(data, columns)
RECURSIVE parse_rows(_, _, _, _, _)
parse_rows(lines, i, columns, data, separator) ==
    IF i + 2 > Len(lines)
    THEN ParseOk(DataFrame(data, columns))
    ELSE LET line == lines[i + 2] IN
         IF Strip(line, Whitespace) = <<>>
         THEN parse_rows(lines, i + 1, columns, data, separator)
         ELSE LET values == line_cells(line, separator) IN
              IF Len(values) # Len(columns)
              THEN ParseValueError(i + 2, Len(columns), Len(values))
              ELSE parse_rows(lines, i + 1, columns,
                              append_values(data, columns, values, 1), separator)

\* CSVParser.parse on a file that exists and holds `lines`
parse_lines(lines, separator) ==
    IF lines = <<>>
    THEN ParseOk(DataFrame(EmptyDict, <<>>))
    ELSE LET header_line == Strip(lines[1], Whitespace)
             columns == line_values(header_line, separator)
             data == [col \in Range(columns) |-> <<>>]
         IN  parse_rows(lines, 0, columns, data, separator)

\* CSVParser.parse
parse(exists, lines, separator) ==
    IF ~exists THEN ParseFileNotFound ELSE parse_lines(lines, separator)

(***************************************************************************)
(* The parser's calls                                                      *)
(***************************************************************************)
MaxLines == 3

\* the lines a file is made of, without their newline
LineBodies ==
    { <<>>,
      <<" ">>,
      <<"a">>,
      <<"a", ",", "a">>,
      <<"a", ",", "b">>,
      <<",", "b">>,
      <<QUOTE, "a", ",", "b", QUOTE>>,
      <<"a", ",", "b", ",", "c">> }

\* file.readlines()
FileLines == {[i \in 1..Len(bs) |-> bs[i] \o <<NL>>] : bs \in SeqsUpTo(LineBodies, MaxLines)}

ParserIdle ==
    [pc |-> "idle", exists |-> FALSE, lines |-> <<>>, separator |-> ",",
     out |-> ParseFileNotFound]

\* a file that is missing, or one that holds some lines
ParserInit ==
    parser \in {[ParserIdle EXCEPT !.pc = "ready"]}
                 \cup {[ParserIdle EXCEPT !.pc = "ready", !.exists = TRUE, !.lines = ls] :
                          ls \in FileLines}

ParseCall ==
    /\ parser.pc = "ready"
    /\ parser' = [parser EXCEPT
                     !.pc = "done",
                     !.out = parse(parser.exists, parser.lines, parser.separator)]
    /\ UNCHANGED <<gcall, filter_page, agg_page, tok, jcall, heap, frames, dicts, made, fcall>>

(***************************************************************************)
(* dataframe.py: __getitem__, head, to_dict, filter                        *)
(***************************************************************************)
\* an argument that is a str
StrArg(name) == [is_str |-> TRUE, name |-> name]

\* an argument that is not a str, such as 0
NonStrArg == [is_str |-> FALSE, name |-> ""]

\* the outcome of a call: a DataFrame, or the exception raised (its class, what
\* its message says, and the name the message quotes)
Returned(df) == [kind |-> "ok", df |-> df, msg |-> "", arg |-> ""]

Raised(kind, msg, arg) == [kind |-> kind, df |-> NoFrame, msg |-> msg, arg |-> arg]

\* the elements of a list argument: a bool, a str, or something else (an int)
BoolEl(b) == [t |-> "bool", b |-> b, s |-> ""]

NameEl(name) == [t |-> "str", b |-> FALSE, s |-> name]

IntEl == [t |-> "int", b |-> TRUE, s |-> ""]

\* Python's truth value of a list element (the int is a 1)
Truthy(el) == IF el.t = "str" THEN el.s # "" ELSE el.b

\* [i for i, keep in enumerate(condition) if keep], positions counted from 1
RECURSIVE indices_of_mask(_, _)
indices_of_mask(condition, i) ==
    IF i > Len(condition)
    THEN <<>>
    ELSE (IF Truthy(condition[i]) THEN <<i>> ELSE <<>>) \o indices_of_mask(condition, i + 1)

\* a row predicate: lambda row: row[col] == val
PredEq(col, val) == [col |-> col, val |-> val]

\* for i in range(num_rows): if condition(row): indices_to_keep.append(i)
RECURSIVE indices_of_pred(_, _, _)
indices_of_pred(df, condition, i) ==
    IF i > df.shape[1]
    THEN <<>>
    ELSE (IF PyEq(df.data[condition.col][i], condition.val) THEN <<i>> ELSE <<>>)
         \o indices_of_pred(df, condition, i + 1)

\* a selection that keeps as many rows as asked for, from the top
take_rows_from_top(df, indices_to_keep) ==
    Returned(DataFrame(
        [c \in Range(df.columns) |-> SubSeq(df.data[c], 1, Len(indices_to_keep))],
        df.columns))

\* {col: [self._data[col][i] for i in indices_to_keep] for col in self._columns}
take_rows(df, indices_to_keep) ==
    IF \E c \in Range(df.columns), k \in 1..Len(indices_to_keep) :
           indices_to_keep[k] > Len(df.data[c])
    THEN Raised("IndexError", "list index out of range", "")
    ELSE Returned(DataFrame(
             [c \in Range(df.columns) |->
                 [k \in 1..Len(indices_to_keep) |-> df.data[c][indices_to_keep[k]]]],
             df.columns))

\* a filter that cuts a long mask to the rows and reads a short one as False
\* for the rows it does not reach
filter_mask_truncating(df, condition) ==
    take_rows(df, indices_of_mask(
        [k \in 1..df.shape[1] |->
            IF k <= Len(condition) THEN condition[k] ELSE BoolEl(FALSE)], 1))

\* DataFrame.filter with a list or tuple
filter_mask(df, condition) ==
    IF Len(condition) # df.shape[1]
    THEN Raised("ValueError",
                "Boolean mask length (" \o ToString(Len(condition))
                    \o ") does not match DataFrame length (" \o ToString(df.shape[1]) \o ")",
                "")
    ELSE IF \E i \in 1..Len(condition) : condition[i].t # "bool"
    THEN Raised("TypeError", "When passing a list/tuple, all elements must be booleans", "")
    ELSE take_rows(df, indices_of_mask(condition, 1))

\* a filter that leaves out the first row the predicate is true of
filter_pred_dropping_first(df, condition) ==
    IF df.shape[1] > 0 /\ condition.col \notin Range(df.columns)
    THEN Raised("KeyError", "", condition.col)
    ELSE LET indices == indices_of_pred(df, condition, 1) IN
         take_rows(df, IF indices = <<>> THEN <<>> ELSE Tail(indices))

\* DataFrame.filter with a callable
filter_pred(df, condition) ==
    IF df.shape[1] > 0 /\ \E c \in Range(df.columns) : Len(df.data[c]) = 0
    THEN Raised("IndexError", "list index out of range", "")
    ELSE IF df.shape[1] > 0 /\ condition.col \notin Range(df.columns)
    THEN Raised("KeyError", "", condition.col)
    ELSE IF \E c \in Range(df.columns) : Len(df.data[c]) < df.shape[1]
    THEN Raised("IndexError", "list index out of range", "")
    ELSE take_rows(df, indices_of_pred(df, condition, 1))

\* DataFrame.filter with anything else
filter_other ==
    Raised("TypeError", "Condition must be a boolean mask (list/tuple) or a callable", "")

\* a list of missing names that stops at the first one
missing_cols_first(df, item) ==
    LET Absent(el) == ~(el.t = "str" /\ Has(df.columns, el.s))
        absent == SelectSeq(item, Absent) IN
    IF absent = <<>> THEN <<>> ELSE <<Head(absent)>>

\* [c for c in item if c not in self._columns]
RECURSIVE missing_cols(_, _)
missing_cols(df, item) ==
    IF item = <<>>
    THEN <<>>
    ELSE (IF Head(item).t = "str" /\ Has(df.columns, Head(item).s)
          THEN <<>> ELSE <<Head(item)>>) \o missing_cols(df, Tail(item))

\* repr() of a list element: a str in quotes, True or False, the int 1
repr_el(el) ==
    IF el.t = "str" THEN "'" \o el.s \o "'"
    ELSE IF el.t = "bool" THEN (IF el.b THEN "True" ELSE "False")
    ELSE "1"

\* repr() of a list, as an f-string formats it
RECURSIVE repr_items(_)
repr_items(list) ==
    IF list = <<>> THEN ""
    ELSE IF Len(list) = 1 THEN repr_el(list[1])
    ELSE repr_el(list[1]) \o ", " \o repr_items(Tail(list))

repr_list(list) == "[" \o repr_items(list) \o "]"

\* the columns a projection keeps, as the dict {col: self._data[col] for col in item}
project_data(data, item) == [c \in {item[k].s : k \in 1..Len(item)} |-> data[c]]

\* a __getitem__ that reads a list as a mask only when all of it is bools
getitem_list_all_bools(df, item) ==
    IF item # <<>> /\ \A k \in 1..Len(item) : item[k].t = "bool"
    THEN filter_mask(df, item)
    ELSE IF missing_cols(df, item) # <<>>
    THEN Raised("KeyError",
                "Columns " \o repr_list(missing_cols(df, item)) \o " not found in DataFrame.",
                "")
    ELSE Returned(DataFrame(project_data(df.data, item),
                            [k \in 1..Len(item) |-> item[k].s]))

\* DataFrame.__getitem__ with a list
getitem_list(df, item) ==
    IF item # <<>> /\ item[1].t = "bool"
    THEN filter_mask(df, item)
    ELSE IF missing_cols(df, item) # <<>>
    THEN Raised("KeyError",
                "Columns " \o repr_list(missing_cols(df, item)) \o " not found in DataFrame.",
                "")
    ELSE Returned(DataFrame(project_data(df.data, item),
                            [k \in 1..Len(item) |-> item[k].s]))

\* list[:n]
Slice(list, n) ==
    IF n >= 0
    THEN SubSeq(list, 1, Min(n, Len(list)))
    ELSE SubSeq(list, 1, Len(list) + n)

\* DataFrame.head
head(df, n) ==
    DataFrame([c \in Range(df.columns) |-> Slice(df.data[c], n)], df.columns)

(***************************************************************************)
(* dataframe.py: DataFrame.groupby and DataFrameGroupBy.agg                *)
(***************************************************************************)
\* the texts of the model in the order Python gives str (by code point)
TextOrder == <<"", "1", "2", "3", "a", "b">>

TextRank(s) == CHOOSE k \in 1..Len(TextOrder) : TextOrder[k] = s

\* whether Python's < is defined between two cells
Comparable(a, b) ==
    \/ IsNumber(a) /\ IsNumber(b)
    \/ a.t = "str" /\ b.t = "str"

\* Python's < between two comparable cells
PyLess(a, b) ==
    IF IsNumber(a)
    THEN a.n * b.d < b.n * a.d
    ELSE TextRank(a.s) < TextRank(b.s)

\* list(set(values)): the values without repetition (the first of equal ones stays)
RECURSIVE unique_values(_, _)
unique_values(values, acc) ==
    IF values = <<>>
    THEN acc
    ELSE unique_values(Tail(values),
                       IF \E k \in 1..Len(acc) : PyEq(acc[k], Head(values))
                       THEN acc
                       ELSE Append(acc, Head(values)))

\* sorted(...) of values no two of which are equal
RECURSIVE sorted(_)
sorted(values) ==
    IF values = <<>>
    THEN <<>>
    ELSE LET lo == CHOOSE k \in 1..Len(values) :
                       \A j \in 1..Len(values) : j # k => PyLess(values[k], values[j])
         IN  <<values[lo]>>
             \o sorted([k \in 1..(Len(values) - 1) |->
                           IF k < lo THEN values[k] ELSE values[k + 1]])

\* the outcome of groupby: the groups (key and sub-frame) in key order, or the
\* exception raised
Grouped(by, groups) == [kind |-> "ok", by |-> by, groups |-> groups, msg |-> "", arg |-> ""]

GroupRaised(kind, msg, arg) ==
    [kind |-> kind, by |-> "", groups |-> <<>>, msg |-> msg, arg |-> arg]

\* for group in unique_groups: grouped_data[group] = self[mask]
RECURSIVE group_frames(_, _, _, _)
group_frames(df, by, unique_groups, acc) ==
    IF unique_groups = <<>>
    THEN Grouped(by, acc)
    ELSE LET group == Head(unique_groups)
             grouping_col_data == df.data[by]
             mask == [k \in 1..Len(grouping_col_data) |->
                         BoolEl(PyEq(grouping_col_data[k], group))]
             sub == getitem_list(df, mask)
         IN  IF sub.kind # "ok"
             THEN GroupRaised(sub.kind, sub.msg, sub.arg)
             ELSE group_frames(df, by, Tail(unique_groups),
                               Append(acc, [key |-> group, df |-> sub.df]))

\* DataFrame.groupby
groupby(df, by) ==
    IF ~Has(df.columns, by)
    THEN GroupRaised("KeyError", "Column not found in DataFrame.", by)
    ELSE LET uniq == unique_values(df.data[by], <<>>) IN
         IF \E i, j \in 1..Len(uniq) : i # j /\ ~Comparable(uniq[i], uniq[j])
         THEN GroupRaised("TypeError", "'<' not supported between instances", "")
         ELSE group_frames(df, by, sorted(uniq), <<>>)

\* the texts float() accepts, with their value
NumeralValue == ("1" :> 1) @@ ("2" :> 2) @@ ("3" :> 3)

\* whether float(val) returns (it raises ValueError or TypeError otherwise)
FloatOk(val) == IsNumber(val) \/ (val.t = "str" /\ val.s \in DOMAIN NumeralValue)

RECURSIVE Gcd(_, _)
Gcd(a, b) == IF b = 0 THEN a ELSE Gcd(b, a % b)

\* the float n/d
Fraction(n, d) ==
    LET g == Gcd(IF n < 0 THEN -n ELSE n, d) IN
    IF n = 0 THEN FloatCell(0, 1) ELSE FloatCell(n \div g, d \div g)

\* float(val)
to_float(val) ==
    IF val.t = "str" THEN FloatCell(NumeralValue[val.s], 1) ELSE Fraction(val.n, val.d)

\* a list in which a cell float() rejects stands as 0.0
numeric_data_zero_filled(column_data) ==
    [k \in 1..Len(column_data) |->
        IF FloatOk(column_data[k]) THEN to_float(column_data[k]) ELSE FloatCell(0, 1)]

\* numeric_data: the cells float() accepts, as floats
RECURSIVE numeric_data(_)
numeric_data(column_data) ==
    IF column_data = <<>>
    THEN <<>>
    ELSE (IF FloatOk(Head(column_data)) THEN <<to_float(Head(column_data))>> ELSE <<>>)
         \o numeric_data(Tail(column_data))

\* max(numeric_data): the first of the largest
py_max(xs) ==
    xs[CHOOSE k \in 1..Len(xs) :
          /\ \A j \in 1..Len(xs) : ~PyLess(xs[k], xs[j])
          /\ \A j \in 1..(k - 1) : PyLess(xs[j], xs[k])]

\* min(numeric_data): the first of the smallest
py_min(xs) ==
    xs[CHOOSE k \in 1..Len(xs) :
          /\ \A j \in 1..Len(xs) : ~PyLess(xs[j], xs[k])
          /\ \A j \in 1..(k - 1) : PyLess(xs[k], xs[j])]

RECURSIVE py_sum(_)
py_sum(xs) ==
    IF xs = <<>>
    THEN FloatCell(0, 1)
    ELSE LET r == py_sum(Tail(xs)) IN Fraction(Head(xs).n * r.d + r.n * Head(xs).d,
                                               Head(xs).d * r.d)

\* sum(numeric_data) / len(numeric_data)
py_mean(xs) == LET t == py_sum(xs) IN Fraction(t.n, t.d * Len(xs))

AggFunctions == {"max", "min", "mean", "count"}

\* a count of the cells that are numbers only
agg_value_counting_numbers(column_data, func_name) ==
    LET nums == numeric_data(column_data)
    IN  CASE func_name = "max" -> IF nums # <<>> THEN py_max(nums) ELSE None
          [] func_name = "min" -> IF nums # <<>> THEN py_min(nums) ELSE None
          [] func_name = "mean" -> IF nums # <<>> THEN py_mean(nums) ELSE None
          [] func_name = "count" -> IntCell(Len(nums))

\* the result of one rule on one group
agg_value(column_data, func_name) ==
    LET nums == IF func_name \in {"max", "min", "mean"}
                THEN numeric_data(column_data) ELSE <<>>
    IN  CASE func_name = "max" -> IF nums # <<>> THEN py_max(nums) ELSE None
          [] func_name = "min" -> IF nums # <<>> THEN py_min(nums) ELSE None
          [] func_name = "mean" -> IF nums # <<>> THEN py_mean(nums) ELSE None
          [] func_name = "count" -> IntCell(Len(column_data))

\* for group_name, group_df in self._grouped_data.items(): the inner loop of agg,
\* from group g on, for the rule (col, func_name) whose output column is new_col_name
RECURSIVE agg_groups(_, _, _, _, _, _)
agg_groups(agg_results, groups, g, col, func_name, new_col_name) ==
    IF g > Len(groups)
    THEN [kind |-> "ok", agg_results |-> agg_results, msg |-> "", arg |-> ""]
    ELSE IF ~Has(groups[g].df.columns, col)
    THEN [kind |-> "KeyError", agg_results |-> agg_results,
          msg |-> "Column not found in DataFrame.", arg |-> col]
    ELSE IF func_name \notin AggFunctions
    THEN [kind |-> "ValueError", agg_results |-> agg_results,
          msg |-> "Unsupported aggregation function", arg |-> func_name]
    ELSE agg_groups([agg_results EXCEPT
                        ![new_col_name] =
                            Append(@, agg_value(groups[g].df.data[col], func_name))],
                    groups, g + 1, col, func_name, new_col_name)

\* for col, func_name in agg_dict.items(): the rules from rule r on
RECURSIVE agg_rules(_, _, _, _, _)
agg_rules(agg_results, result_columns, groups, agg_dict, r) ==
    IF r > Len(agg_dict)
    THEN Returned(DataFrame(agg_results, result_columns))
    ELSE LET col == agg_dict[r].col
             func_name == agg_dict[r].func
             new_col_name == col \o "_" \o func_name
             done == agg_groups(DictSet(agg_results, new_col_name, <<>>), groups, 1,
                                col, func_name, new_col_name)
         IN  IF done.kind # "ok"
             THEN Raised(done.kind, done.msg, done.arg)
             ELSE agg_rules(done.agg_results, Append(result_columns, new_col_name),
                            groups, agg_dict, r + 1)

\* DataFrameGroupBy.agg: agg_dict is the list of the dict's (col, func) items
agg(grouped, agg_dict) ==
    agg_rules((grouped.by :> [g \in 1..Len(grouped.groups) |-> grouped.groups[g].key]),
              <<grouped.by>>, grouped.groups, agg_dict, 1)

(***************************************************************************)
(* dataframe.py: DataFrame.join                                            *)
(***************************************************************************)
\* right_index as the list of its (key, row positions) items, in insertion order
index_has(right_index, key_val) ==
    \E k \in 1..Len(right_index) : PyEq(right_index[k].key, key_val)

index_get(right_index, key_val) ==
    right_index[CHOOSE k \in 1..Len(right_index) : PyEq(right_index[k].key, key_val)].rows

\* if key_val not in right_index: right_index[key_val] = []
\* right_index[key_val].append(i)
index_add(right_index, key_val, i) ==
    IF index_has(right_index, key_val)
    THEN [k \in 1..Len(right_index) |->
            IF PyEq(right_index[k].key, key_val)
            THEN [right_index[k] EXCEPT !.rows = Append(@, i)]
            ELSE right_index[k]]
    ELSE Append(right_index, [key |-> key_val, rows |-> <<i>>])

\* for i, key_val in enumerate(right_key_data)
RECURSIVE build_index(_, _, _)
build_index(right_index, right_key_data, i) ==
    IF i > Len(right_key_data)
    THEN right_index
    ELSE build_index(index_add(right_index, right_key_data[i], i), right_key_data, i + 1)

\* the name a left column gets in the result
left_col_name(col, right_columns, left_on, right_on) ==
    IF Has(right_columns, col) /\ col # left_on /\ col # right_on
    THEN col \o "_left"
    ELSE col

\* the name a right column gets in the result
right_col_name(col, left_columns, left_on, right_on) ==
    IF Has(left_columns, col) /\ col # left_on /\ col # right_on
    THEN col \o "_right"
    ELSE col

\* the result under construction
Schema(new_data, new_columns) == [new_data |-> new_data, new_columns |-> new_columns]

\* for col in self._columns: the left columns of the result schema
RECURSIVE left_schema(_, _, _, _, _, _)
left_schema(acc, k, left_columns, right_columns, left_on, right_on) ==
    IF k > Len(left_columns)
    THEN acc
    ELSE LET new_col_name ==
                 left_col_name(left_columns[k], right_columns, left_on, right_on)
         IN  left_schema(Schema(DictSet(acc.new_data, new_col_name, <<>>),
                                Append(acc.new_columns, new_col_name)),
                         k + 1, left_columns, right_columns, left_on, right_on)

\* whether the schema adds a right column under a name it does not hold yet
right_col_is_new(new_col_name, new_columns) == ~Has(new_columns, new_col_name)

\* for col in right_df._columns: the right columns of the result schema
RECURSIVE right_schema(_, _, _, _, _, _)
right_schema(acc, k, left_columns, right_columns, left_on, right_on) ==
    IF k > Len(right_columns)
    THEN acc
    ELSE LET col == right_columns[k]
             new_col_name == right_col_name(col, left_columns, left_on, right_on)
         IN  IF col = right_on /\ left_on = right_on
             THEN right_schema(acc, k + 1, left_columns, right_columns, left_on, right_on)
             ELSE IF right_col_is_new(new_col_name, acc.new_columns)
             THEN right_schema(Schema(DictSet(acc.new_data, new_col_name, <<>>),
                                      Append(acc.new_columns, new_col_name)),
                               k + 1, left_columns, right_columns, left_on, right_on)
             ELSE right_schema(acc, k + 1, left_columns, right_columns, left_on, right_on)

\* for col in self._columns: new_data[new_col_name].append(self._data[col][left_idx])
RECURSIVE append_left(_, _, _, _, _, _, _)
append_left(new_data, k, left, right_columns, left_on, right_on, left_idx) ==
    IF k > Len(left.columns)
    THEN new_data
    ELSE LET col == left.columns[k]
             new_col_name == left_col_name(col, right_columns, left_on, right_on)
         IN  append_left([new_data EXCEPT
                             ![new_col_name] = Append(@, left.data[col][left_idx])],
                         k + 1, left, right_columns, left_on, right_on, left_idx)

\* for col in right_df._columns: ... new_data[new_col_name].append(right_df._data[col][right_idx])
RECURSIVE append_right(_, _, _, _, _, _, _)
append_right(new_data, k, right, left_columns, left_on, right_on, right_idx) ==
    IF k > Len(right.columns)
    THEN new_data
    ELSE LET col == right.columns[k]
             new_col_name == right_col_name(col, left_columns, left_on, right_on)
         IN  IF col = right_on /\ left_on = right_on
             THEN append_right(new_data, k + 1, right, left_columns, left_on, right_on,
                               right_idx)
             ELSE IF new_col_name \in DOMAIN new_data
             THEN append_right([new_data EXCEPT
                                   ![new_col_name] = Append(@, right.data[col][right_idx])],
                               k + 1, right, left_columns, left_on, right_on, right_idx)
             ELSE append_right(new_data, k + 1, right, left_columns, left_on, right_on,
                               right_idx)

\* for right_idx in matching_right_indices
RECURSIVE append_matches(_, _, _, _, _, _, _, _)
append_matches(new_data, matching, m, left, right, left_on, right_on, left_idx) ==
    IF m > Len(matching)
    THEN new_data
    ELSE append_matches(
             append_right(
                 append_left(new_data, 1, left, right.columns, left_on, right_on, left_idx),
                 1, right, left.columns, left_on, right_on, matching[m]),
             matching, m + 1, left, right, left_on, right_on, left_idx)

\* for left_idx, left_key_val in enumerate(left_key_data)
RECURSIVE scan_left(_, _, _, _, _, _, _)
scan_left(new_data, left_idx, right_index, left, right, left_on, right_on) ==
    IF left_idx > Len(left.data[left_on])
    THEN new_data
    ELSE LET left_key_val == left.data[left_on][left_idx] IN
         IF index_has(right_index, left_key_val)
         THEN scan_left(append_matches(new_data, index_get(right_index, left_key_val), 1,
                                       left, right, left_on, right_on, left_idx),
                        left_idx + 1, right_index, left, right, left_on, right_on)
         ELSE scan_left(new_data, left_idx + 1, right_index, left, right, left_on, right_on)

\* self._data[col][left_idx] or right_df._data[col][right_idx] of a matching
\* pair of rows lies beyond the end of a column shorter than the key column
join_out_of_range(left, right, left_on, right_on) ==
    LET right_index == build_index(<<>>, right.data[right_on], 1) IN
    \E left_idx \in 1..Len(left.data[left_on]) :
        /\ index_has(right_index, left.data[left_on][left_idx])
        /\ \/ \E k \in 1..Len(left.columns) : Len(left.data[left.columns[k]]) < left_idx
           \/ \E m \in 1..Len(index_get(right_index, left.data[left_on][left_idx])) :
              \E k \in 1..Len(right.columns) :
                  /\ ~(right.columns[k] = right_on /\ left_on = right_on)
                  /\ Len(right.data[right.columns[k]])
                        < index_get(right_index, left.data[left_on][left_idx])[m]

\* the join proper, once the arguments are validated
join_frames(left, right, left_on, right_on) ==
    LET right_index == build_index(<<>>, right.data[right_on], 1)
        schema == right_schema(
                      left_schema(Schema(EmptyDict, <<>>), 1, left.columns, right.columns,
                                  left_on, right_on),
                      1, left.columns, right.columns, left_on, right_on)
        new_data == scan_left(schema.new_data, 1, right_index, left, right, left_on, right_on)
    IN  DataFrame(new_data, schema.new_columns)

\* the checks with the kind of join looked at last, after the key columns
join_validate_kind_last(left, right_is_df, right, left_on, right_on, how) ==
    IF ~right_is_df
    THEN Raised("TypeError", "right_df must be a DataFrame object", "")
    ELSE IF ~left_on.is_str \/ ~right_on.is_str
    THEN Raised("TypeError", "left_on and right_on must be strings", "")
    ELSE IF ~Has(left.columns, left_on.name)
    THEN Raised("KeyError", "Column not found in left DataFrame.", left_on.name)
    ELSE IF ~Has(right.columns, right_on.name)
    THEN Raised("KeyError", "Column not found in right DataFrame.", right_on.name)
    ELSE IF how # "inner"
    THEN Raised("ValueError", "Join type not supported. Only 'inner' is implemented.", how)
    ELSE Returned(NoFrame)

\* the checks without the one of the kind of join
join_validate_any_kind(left, right_is_df, right, left_on, right_on, how) ==
    IF ~right_is_df
    THEN Raised("TypeError", "right_df must be a DataFrame object", "")
    ELSE IF ~left_on.is_str \/ ~right_on.is_str
    THEN Raised("TypeError", "left_on and right_on must be strings", "")
    ELSE IF ~Has(left.columns, left_on.name)
    THEN Raised("KeyError", "Column not found in left DataFrame.", left_on.name)
    ELSE IF ~Has(right.columns, right_on.name)
    THEN Raised("KeyError", "Column not found in right DataFrame.", right_on.name)
    ELSE Returned(NoFrame)

\* the checks of the arguments, in the order the code makes them: the exception
\* of the first that fails, or Returned(NoFrame) when all pass
join_validate(left, right_is_df, right, left_on, right_on, how) ==
    IF ~right_is_df
    THEN Raised("TypeError", "right_df must be a DataFrame object", "")
    ELSE IF ~left_on.is_str \/ ~right_on.is_str
    THEN Raised("TypeError", "left_on and right_on must be strings", "")
    ELSE IF how # "inner"
    THEN Raised("ValueError", "Join type not supported. Only 'inner' is implemented.", how)
    ELSE IF ~Has(left.columns, left_on.name)
    THEN Raised("KeyError", "Column not found in left DataFrame.", left_on.name)
    ELSE IF ~Has(right.columns, right_on.name)
    THEN Raised("KeyError", "Column not found in right DataFrame.", right_on.name)
    ELSE Returned(NoFrame)

\* DataFrame.join(self, right_df, left_on, right_on, how)
join(left, right_is_df, right, left_on, right_on, how) ==
    LET checked == join_validate(left, right_is_df, right, left_on, right_on, how) IN
    IF checked.kind # "ok"
    THEN checked
    ELSE IF join_out_of_range(left, right, left_on.name, right_on.name)
    THEN Raised("IndexError", "list index out of range", "")
    ELSE Returned(join_frames(left, right, left_on.name, right_on.name))

(***************************************************************************)
(* The join's calls                                                        *)
(***************************************************************************)
MaxJoinCols == 2

MaxJoinRows == 2

JoinNames == {"ID", "X", "X_left"}

RowSeeds == {"a", "b"}

\* the cell of a row at a column position: the row's seed at odd positions, the
\* other seed at even ones, so that the cells of a row differ between columns
SeedCell(pos, seed) ==
    IF pos % 2 = 1 THEN Text(seed) ELSE Text(CHOOSE o \in RowSeeds : o # seed)

Distinct(s) == \A i, j \in 1..Len(s) : i # j => s[i] # s[j]

\* column lists with no repeated name
JoinSchemas == {cs \in SeqsUpTo(JoinNames, MaxJoinCols) : cs # <<>> /\ Distinct(cs)}

\* a well-formed frame: the columns, and one row per seed
SeedFrame(columns, seeds) ==
    DataFrame([c \in Range(columns) |->
                  [i \in 1..Len(seeds) |->
                      SeedCell(CHOOSE k \in 1..Len(columns) : columns[k] = c, seeds[i])]],
              columns)

JoinFrames ==
    {SeedFrame(cs, seeds) : cs \in JoinSchemas, seeds \in SeqsUpTo(RowSeeds, MaxJoinRows)}

\* the arguments of a call: every pair of names with a DataFrame and how="inner",
\* and every combination of a bad right_df, a key that is no str and how="left"
JoinArgs ==
    {[right_is_df |-> TRUE, left_on |-> StrArg(l), right_on |-> StrArg(r), how |-> "inner"] :
        l \in JoinNames, r \in JoinNames}
    \cup {[right_is_df |-> d, left_on |-> l, right_on |-> r, how |-> h] :
            d \in BOOLEAN, l \in {StrArg("ID"), NonStrArg},
            r \in {StrArg("ID"), NonStrArg}, h \in {"inner", "left"}}

JoinIdle ==
    [pc |-> "idle", left |-> NoFrame, right |-> NoFrame,
     args |-> [right_is_df |-> TRUE, left_on |-> NonStrArg, right_on |-> NonStrArg,
               how |-> "inner"],
     out |-> Returned(NoFrame)]

JoinInit ==
    jcall \in {[JoinIdle EXCEPT !.pc = "ready", !.left = l, !.right = r] :
                  l \in JoinFrames, r \in JoinFrames}

JoinCall ==
    /\ jcall.pc = "ready"
    /\ \E a \in JoinArgs :
          jcall' = [jcall EXCEPT
                       !.pc = "done",
                       !.args = a,
                       !.out = join(jcall.left, a.right_is_df, jcall.right,
                                    a.left_on, a.right_on, a.how)]
    /\ UNCHANGED <<gcall, filter_page, agg_page, tok, parser, heap, frames, dicts, made, fcall>>

(***************************************************************************)
(* dataframe.py: Series and its comparisons                                *)
(***************************************************************************)
\* Series(data, name, parent_df): a view of one column
Series(data, name) == [data |-> data, name |-> name]

\* the outcome of a call that returns a Series or a list instead of a DataFrame
ViewReturned(values) ==
    [kind |-> "ok", df |-> NoFrame, msg |-> "", arg |-> "", values |-> values]

\* DataFrame.__getitem__ with a str
getitem_str(df, item) ==
    IF ~Has(df.columns, item)
    THEN Raised("KeyError", "Column '" \o item \o "' not found in DataFrame.", item)
    ELSE ViewReturned(Series(df.data[item], item))

\* val > other, val >= other, val < other, val <= other between comparable cells
compare_cells(op, val, other) ==
    IF op = ">" THEN PyLess(other, val)
    ELSE IF op = ">=" THEN ~PyLess(val, other)
    ELSE IF op = "<" THEN PyLess(val, other)
    ELSE ~PyLess(other, val)

\* Series.__gt__, __ge__, __lt__, __le__:
\* [val > other if val is not None else False for val in self._data]
series_compare(series, op, other) ==
    LET unordered == {i \in 1..Len(series.data) :
                         series.data[i] # None /\ ~Comparable(series.data[i], other)}
    IN  IF unordered # {}
        THEN LET i == CHOOSE i \in unordered : \A j \in unordered : i <= j IN
             Raised("TypeError",
                    "'" \o op \o "' not supported between instances of '"
                        \o series.data[i].t \o "' and '" \o other.t \o "'",
                    op)
        ELSE ViewReturned([i \in 1..Len(series.data) |->
                              BoolEl(series.data[i] # None
                                     /\ compare_cells(op, series.data[i], other))])

(***************************************************************************)
(* Calls on a DataFrame: one call, or a chain of two as in                 *)
(* df.filter(mask)[cols], df[cols].filter(mask), df.filter(p).filter(p)    *)
(***************************************************************************)
MaxFrameRows == 2

\* the rows a DataFrame of the calls is made of: text, None and an int
FrameRowKinds ==
    { <<Text("a"), Text("1")>>, <<Text("b"), None>>, <<Text("a"), IntCell(2)>> }

FrameColumns == <<"A", "B">>

\* the DataFrames the calls are made on: every list of up to MaxFrameRows rows
\* under the columns A and B, and the DataFrame without columns
FrameTables ==
    { DataFrame([c \in Range(FrameColumns) |->
                    [i \in 1..Len(rows) |->
                        rows[i][CHOOSE k \in 1..Len(FrameColumns) : FrameColumns[k] = c]]],
                FrameColumns) :
         rows \in SeqsUpTo(FrameRowKinds, MaxFrameRows) }
    \cup {DataFrame(EmptyDict, <<>>)}

\* a call: the method, and the argument it is given
NoPred == PredEq("", None)

FilterMaskOp(mask) ==
    [op |-> "filter_mask", list |-> mask, pred |-> NoPred, name |-> "", n |-> 0,
     cmp |-> "", other |-> None]

FilterPredOp(pred) ==
    [op |-> "filter_pred", list |-> <<>>, pred |-> pred, name |-> "", n |-> 0,
     cmp |-> "", other |-> None]

GetItemListOp(item) ==
    [op |-> "getitem_list", list |-> item, pred |-> NoPred, name |-> "", n |-> 0,
     cmp |-> "", other |-> None]

GetItemStrOp(name) ==
    [op |-> "getitem_str", list |-> <<>>, pred |-> NoPred, name |-> name, n |-> 0,
     cmp |-> "", other |-> None]

HeadOp(n) ==
    [op |-> "head", list |-> <<>>, pred |-> NoPred, name |-> "", n |-> n,
     cmp |-> "", other |-> None]

CompareOp(name, cmp, other) ==
    [op |-> "compare", list |-> <<>>, pred |-> NoPred, name |-> name, n |-> 0,
     cmp |-> cmp, other |-> other]

\* what the call returns or raises on df
Apply(df, o) ==
    IF o.op = "filter_mask" THEN filter_mask(df, o.list)
    ELSE IF o.op = "filter_pred" THEN filter_pred(df, o.pred)
    ELSE IF o.op = "getitem_list" THEN getitem_list(df, o.list)
    ELSE IF o.op = "getitem_str" THEN getitem_str(df, o.name)
    ELSE IF o.op = "head" THEN Returned(head(df, o.n))
    ELSE LET column == getitem_str(df, o.name) IN
         IF column.kind # "ok"
         THEN column
         ELSE series_compare(column.values, o.cmp, o.other)

FrameIdle == [pc |-> "idle", df |-> NoFrame, ops |-> <<>>, outs |-> <<>>]

FrameInit == fcall \in {[FrameIdle EXCEPT !.pc = "call", !.df = T] : T \in FrameTables}

\* the masks given to a DataFrame of n rows: every list of n bools, the lists of
\* one bool less and one more, and lists of n elements with an int at either end
FrameMasks(n) ==
    {[k \in 1..n |-> BoolEl(bs[k])] : bs \in [1..n -> BOOLEAN]}
    \cup {[k \in 1..(n + 1) |-> BoolEl(TRUE)]}
    \cup {[k \in 1..(n - 1) |-> BoolEl(TRUE)] : x \in {y \in {n} : y > 0}}
    \cup {[k \in 1..n |-> IF k = 1 THEN IntEl ELSE BoolEl(TRUE)] : x \in {y \in {n} : y > 0}}
    \cup {[k \in 1..n |-> IF k = n THEN IntEl ELSE BoolEl(TRUE)] : x \in {y \in {n} : y > 1}}

\* the lists of names given to __getitem__
FrameItems ==
    { <<>>, <<NameEl("A")>>, <<NameEl("B"), NameEl("A")>>, <<NameEl("A"), NameEl("A")>>,
      <<NameEl("A"), NameEl("Z")>>, <<NameEl("Z"), NameEl("A"), NameEl("Y")>>,
      <<NameEl("Z"), NameEl("Z")>> }

FramePreds == {PredEq("A", Text("a")), PredEq("B", None), PredEq("Z", Text("a"))}

FrameScalars == {IntCell(1), FloatCell(5, 2), Text("a"), None}

\* the call is made on df and its outcome kept
Call(df, o, pc) ==
    /\ fcall' = [fcall EXCEPT !.pc = pc,
                              !.ops = Append(@, o),
                              !.outs = Append(@, Apply(df, o))]
    /\ UNCHANGED <<gcall, filter_page, agg_page, tok, parser, jcall, heap, frames, dicts, made>>

FFilterMask ==
    /\ fcall.pc = "call"
    /\ \E mask \in FrameMasks(fcall.df.shape[1]) :
          Call(fcall.df, FilterMaskOp(mask), "called")

FFilterPred ==
    /\ fcall.pc = "call"
    /\ \E pred \in FramePreds : Call(fcall.df, FilterPredOp(pred), "called")

FGetItemList ==
    /\ fcall.pc = "call"
    /\ \E item \in FrameItems \cup FrameMasks(fcall.df.shape[1]) :
          Call(fcall.df, GetItemListOp(item), "called")

FGetItemStr ==
    /\ fcall.pc = "call"
    /\ \E name \in {"A", "Z"} : Call(fcall.df, GetItemStrOp(name), "done")

FHead ==
    /\ fcall.pc = "call"
    /\ \E n \in {-1, 0, 1, 5} : Call(fcall.df, HeadOp(n), "done")

FCompare ==
    /\ fcall.pc = "call"
    /\ \E name \in {"A", "B", "Z"} : \E cmp \in {">", ">=", "<", "<="} :
       \E other \in FrameScalars :
          Call(fcall.df, CompareOp(name, cmp, other), "done")

\* the first call returned a DataFrame, on which the second call is made
Chained(op) ==
    /\ fcall.pc = "called"
    /\ fcall.ops[1].op = op
    /\ fcall.outs[1].kind = "ok"

\* df.filter(mask)[cols]
FThenGetItemList ==
    /\ Chained("filter_mask")
    /\ \E item \in FrameItems : Call(fcall.outs[1].df, GetItemListOp(item), "done")

\* df[cols].filter(mask), the mask made for df
FThenFilterMask ==
    /\ Chained("getitem_list")
    /\ \E mask \in FrameMasks(fcall.df.shape[1]) :
          Call(fcall.outs[1].df, FilterMaskOp(mask), "done")

\* df.filter(p).filter(p)
FThenFilterPred ==
    /\ Chained("filter_pred")
    /\ Call(fcall.outs[1].df, FilterPredOp(fcall.ops[1].pred), "done")

(***************************************************************************)
(* The objects: DataFrames whose columns are lists on the heap             *)
(***************************************************************************)
\* the addresses of the lists a dict of columns holds
Addrs(data) == {data[c] : c \in DOMAIN data}

\* a DataFrame object as the value it holds now (its shape is the one computed
\* when it was constructed)
Deref(h, obj) ==
    [data |-> [c \in DOMAIN obj.data |-> h[obj.data[c]]],
     columns |-> obj.columns,
     shape |-> obj.shape]

NoObject == [data |-> EmptyDict, columns |-> <<>>, shape |-> <<0, 0>>]

\* the outcome of a call on objects: the heap after it, and the object returned
\* or the exception raised
ObjRaised(h, out) == [heap |-> h, obj |-> NoObject, kind |-> out.kind, msg |-> out.msg,
                      arg |-> out.arg]

ObjReturned(h, obj) == [heap |-> h, obj |-> obj, kind |-> "ok", msg |-> "", arg |-> ""]

\* a DataFrame the call built from lists of its own: every column is a new list
\* object, in the order of the columns
new_frame(h, df) ==
    LET names == DOMAIN df.data
        first(c) == CHOOSE k \in 1..Len(df.columns) :
                        df.columns[k] = c /\ \A j \in 1..(k - 1) : df.columns[j] # c
        place(c) == Cardinality({x \in names : first(x) < first(c)}) + 1
        added == [k \in 1..Cardinality(names) |->
                     df.data[CHOOSE c \in names : place(c) = k]]
    IN  ObjReturned(h \o added,
                    [data |-> [c \in names |-> Len(h) + place(c)],
                     columns |-> df.columns,
                     shape |-> df.shape])

\* what a call that builds its result from new lists leaves on the heap
built(h, out) == IF out.kind = "ok" THEN new_frame(h, out.df) ELSE ObjRaised(h, out)

\* self.filter(mask)
filter_mask_obj(h, self, condition) == built(h, filter_mask(Deref(h, self), condition))

\* self.filter(callable)
filter_pred_obj(h, self, condition) == built(h, filter_pred(Deref(h, self), condition))

\* self[item] with a list: a mask goes to filter; a projection builds a new dict
\* over the lists self holds
getitem_list_obj(h, self, item) ==
    LET out == getitem_list(Deref(h, self), item) IN
    IF item # <<>> /\ item[1].t = "bool"
    THEN built(h, out)
    ELSE IF out.kind # "ok"
    THEN ObjRaised(h, out)
    ELSE ObjReturned(h, [data |-> project_data(self.data, item),
                         columns |-> out.df.columns,
                         shape |-> out.df.shape])

\* a head that cuts the lists of self short and returns self
head_obj_in_place(h, self, n) ==
    ObjReturned([a \in 1..Len(h) |-> IF a \in Addrs(self.data) THEN Slice(h[a], n) ELSE h[a]],
                self)

\* self.head(n): every column is the slice, a new list
head_obj(h, self, n) == built(h, Returned(head(Deref(h, self), n)))

\* self.join(right_df, ...)
join_obj(h, self, right_is_df, right_df, left_on, right_on, how) ==
    built(h, join(Deref(h, self), right_is_df, Deref(h, right_df), left_on, right_on, how))

\* self.groupby(by).agg(agg_dict): the groups are DataFrames of their own, gone
\* when the call returns
groupby_agg_obj(h, self, by, agg_dict) ==
    LET grouped == groupby(Deref(h, self), by) IN
    IF grouped.kind # "ok"
    THEN ObjRaised(h, grouped)
    ELSE built(h, agg(grouped, agg_dict))

\* self.to_dict(): return self._data
to_dict(self) == self.data

(***************************************************************************)
(* The engine's calls, on the objects of a session                         *)
(***************************************************************************)
MaxFrames == 2

MaxAppends == 1

\* the rows a file of the session holds: a key and a value to aggregate
EngineRows == <<<<Text("a"), Text("1")>>, <<Text("b"), Text("")>>>>

EngineColumns == <<"A", "B">>

\* the session's first DataFrame holds the first rows of the file
EngineFirstFrames ==
    {DataFrame([c \in Range(EngineColumns) |->
                   [i \in 1..n |->
                       EngineRows[i][CHOOSE k \in 1..Len(EngineColumns) : EngineColumns[k] = c]]],
               EngineColumns) :
        n \in 0..Len(EngineRows)}

\* the cell a caller appends to a list it got hold of
Marker == Text("3")

EngineInit ==
    \E df \in EngineFirstFrames :
        /\ heap = new_frame(<<>>, df).heap
        /\ frames = <<new_frame(<<>>, df).obj>>
        /\ dicts = {}
        /\ made = <<"DataFrame">>

\* the call returned `res`: the heap it left and, unless it raised, its DataFrame
\* among the frames of the session
Record(op, res) ==
    /\ heap' = res.heap
    /\ frames' = IF res.kind = "ok" THEN Append(frames, res.obj) ELSE frames
    /\ made' = IF res.kind = "ok" THEN Append(made, op) ELSE made
    /\ UNCHANGED <<gcall, filter_page, agg_page, tok, parser, jcall, fcall, dicts>>

\* a call may return a DataFrame while the session has room for one
Room(res) == res.kind = "ok" => Len(frames) < MaxFrames

Rows(i) == frames[i].shape[1]

\* the masks of a call: all rows, the first row only, a mask that is a row long,
\* and one that holds an int
Masks(i) ==
    { [k \in 1..Rows(i) |-> BoolEl(TRUE)],
      [k \in 1..Rows(i) |-> BoolEl(k = 1)],
      [k \in 1..(Rows(i) + 1) |-> BoolEl(TRUE)],
      [k \in 1..(Rows(i) + 1) |-> IF k = 1 THEN IntEl ELSE BoolEl(TRUE)] }

EFilterMask ==
    \E i \in 1..Len(frames) : \E m \in Masks(i) :
        LET res == filter_mask_obj(heap, frames[i], m) IN
        Room(res) /\ Record("filter_mask", res)

Preds == {PredEq("A", Text("a")), PredEq("Z", Text("a"))}

EFilterPred ==
    \E i \in 1..Len(frames) : \E p \in Preds :
        LET res == filter_pred_obj(heap, frames[i], p) IN
        Room(res) /\ Record("filter_pred", res)

Projections == { <<NameEl("A")>>, <<NameEl("B"), NameEl("A")>>, <<NameEl("A"), NameEl("Z")>> }

EProject ==
    \E i \in 1..Len(frames) : \E item \in Projections :
        LET res == getitem_list_obj(heap, frames[i], item) IN
        Room(res) /\ Record("projection", res)

EHead ==
    \E i \in 1..Len(frames) :
        LET res == head_obj(heap, frames[i], 1) IN
        Room(res) /\ Record("head", res)

AggDicts ==
    { <<[col |-> "B", func |-> "max"], [col |-> "A", func |-> "count"]>>,
      <<[col |-> "B", func |-> "median"]>> }

EGroupByAgg ==
    \E i \in 1..Len(frames) : \E by \in {"A", "Z"} : \E agg_dict \in AggDicts :
        LET res == groupby_agg_obj(heap, frames[i], by, agg_dict) IN
        Room(res) /\ Record("groupby_agg", res)

EngineJoinArgs == { <<"A", "A", "inner">>, <<"A", "Z", "inner">>, <<"A", "A", "left">> }

EJoin ==
    \E i \in 1..Len(frames) : \E j \in 1..Len(frames) :
    \E a \in EngineJoinArgs :
        LET res == join_obj(heap, frames[i], TRUE, frames[j], StrArg(a[1]), StrArg(a[2]), a[3])
        IN  Room(res) /\ Record("join", res)

\* the caller asks a DataFrame for its dict, and keeps the one it asked for last
EToDict ==
    \E i \in 1..Len(frames) :
        /\ dicts' = {to_dict(frames[i])}
        /\ UNCHANGED <<gcall, filter_page, agg_page, tok, parser, jcall, fcall, heap, frames, made>>

\* the cells on the heap that are the caller's
Appended ==
    Cardinality(UNION {{<<a, k>> : k \in {n \in 1..Len(heap[a]) : heap[a][n] = Marker}} :
                          a \in 1..Len(heap)})

\* the caller appends a cell to a list of a dict it was given: d[c].append(x)
CallerAppend ==
    /\ Appended < MaxAppends
    /\ \E d \in dicts : \E c \in DOMAIN d :
          /\ heap' = [heap EXCEPT ![d[c]] = Append(@, Marker)]
          /\ UNCHANGED <<gcall, filter_page, agg_page, tok, parser, jcall, fcall, frames, dicts, made>>

(***************************************************************************)
(* Calls of groupby and agg: df.groupby(by).agg(agg_dict), and a groupby   *)
(* of the DataFrame that agg returned                                      *)
(***************************************************************************)
MaxGroupRows == 2

\* the rows of the DataFrames that are grouped: a key and a value to aggregate,
\* the value a numeral, another text, an empty text or None
GroupRowKinds ==
    { <<Text("a"), Text("1")>>, <<Text("a"), Text("3")>>, <<Text("a"), Text("a")>>,
      <<Text("b"), None>>, <<Text("b"), Text("")>>, <<None, Text("2")>> }

\* the names of the two columns; in the second the first column has the name
\* that agg gives to the maximum of the second
GroupSchemas == { <<"K", "V">>, <<"V_max", "V">> }

GroupTables ==
    { DataFrame([c \in Range(columns) |->
                    [i \in 1..Len(rows) |->
                        rows[i][CHOOSE k \in 1..Len(columns) : columns[k] = c]]],
                columns) :
         rows \in SeqsUpTo(GroupRowKinds, MaxGroupRows), columns \in GroupSchemas }

\* one item of agg_dict
Rule(col, func) == [col |-> col, func |-> func]

\* the dicts given to agg, as the lists of their items
GroupRules(df) ==
    LET key == df.columns[1] IN
    { <<>>,
      <<Rule("V", "max")>>, <<Rule("V", "min")>>, <<Rule("V", "mean")>>,
      <<Rule("V", "count")>>, <<Rule("V", "median")>>,
      <<Rule(key, "count"), Rule("V", "mean")>>,
      <<Rule("V", "max"), Rule(key, "sum")>>,
      <<Rule("Z", "max")>> }

NoGroups == GroupRaised("", "", "")

GroupIdle ==
    [pc |-> "idle", df |-> NoFrame, grouped |-> NoGroups, agg_dict |-> <<>>,
     out |-> Returned(NoFrame), regrouped |-> NoGroups]

GroupInit == gcall \in {[GroupIdle EXCEPT !.pc = "call", !.df = T] : T \in GroupTables}

\* df.groupby(by)
GGroupBy ==
    /\ gcall.pc = "call"
    /\ \E by \in Range(gcall.df.columns) \cup {"Z"} :
          gcall' = [gcall EXCEPT !.pc = "grouped", !.grouped = groupby(gcall.df, by)]
    /\ UNCHANGED <<tok, parser, jcall, heap, frames, dicts, made, fcall,
                   filter_page, agg_page>>

\* grouped.agg(agg_dict)
GAgg ==
    /\ gcall.pc = "grouped"
    /\ gcall.grouped.kind = "ok"
    /\ \E agg_dict \in GroupRules(gcall.df) :
          gcall' = [gcall EXCEPT !.pc = "agged",
                                 !.agg_dict = agg_dict,
                                 !.out = agg(gcall.grouped, agg_dict)]
    /\ UNCHANGED <<tok, parser, jcall, heap, frames, dicts, made, fcall,
                   filter_page, agg_page>>

\* result.groupby(by) on the DataFrame that agg returned
GRegroup ==
    /\ gcall.pc = "agged"
    /\ gcall.out.kind = "ok"
    /\ \E by \in Range(gcall.out.df.columns) :
          gcall' = [gcall EXCEPT !.pc = "done",
                                 !.regrouped = groupby(gcall.out.df, by)]
    /\ UNCHANGED <<tok, parser, jcall, heap, frames, dicts, made, fcall,
                   filter_page, agg_page>>

(***************************************************************************)
(* pages/1_Filtering_and_Projection.py: the filters that are being         *)
(* configured, kept in st.session_state                                    *)
(***************************************************************************)
MaxFilters == 3

MaxChain == 1

\* list.pop(idx), idx counted from 0
Pop(list, idx) == [k \in 1..(Len(list) - 1) |-> IF k <= idx THEN list[k] ELSE list[k + 1]]

\* what the text input of the new filter holds
FilterValues == {"", "1", "2"}

\* st.session_state.get("pending_logic", "AND"): the page never sets the key
pending_logic == "AND"

FilterPageIdle == [filters |-> <<>>, filter_logics |-> <<>>, operations_chain |-> <<>>]

\* the button "Add Filter"
AddFilter ==
    /\ Len(filter_page.filters) < MaxFilters
    /\ \E new_value \in FilterValues :
          LET filters == Append(filter_page.filters, <<"A", "==", new_value>>) IN
          filter_page' =
              IF new_value = ""
              THEN filter_page
              ELSE [filter_page EXCEPT
                       !.filters = filters,
                       !.filter_logics = IF Len(filters) > 1
                                         THEN Append(@, pending_logic)
                                         ELSE @]
    /\ UNCHANGED <<tok, parser, jcall, heap, frames, dicts, made, fcall, gcall, agg_page>>

\* the button that removes the filter at idx
RemoveFilter ==
    /\ \E idx \in 0..(Len(filter_page.filters) - 1) :
          filter_page' =
              [filter_page EXCEPT
                  !.filters = Pop(@, idx),
                  !.filter_logics = IF idx < Len(@) THEN Pop(@, idx) ELSE @]
    /\ UNCHANGED <<tok, parser, jcall, heap, frames, dicts, made, fcall, gcall, agg_page>>

\* the button "Add Filters to Chain"
AddFiltersToChain ==
    /\ filter_page.filters # <<>>
    /\ Len(filter_page.operations_chain) < MaxChain
    /\ filter_page' =
          [filters |-> <<>>,
           filter_logics |-> <<>>,
           operations_chain |->
               Append(filter_page.operations_chain,
                      [type |-> "filter",
                       filters |-> filter_page.filters,
                       filter_logics |-> filter_page.filter_logics])]
    /\ UNCHANGED <<tok, parser, jcall, heap, frames, dicts, made, fcall, gcall, agg_page>>

(***************************************************************************)
(* pages/2_Grouping_and_Aggregation.py: the aggregation rules, kept in     *)
(* st.session_state, and the dict the script builds from them on every run *)
(***************************************************************************)
MaxRules == 3

\* the DataFrame the page has loaded
PageTable ==
    DataFrame(("K" :> <<Text("a"), Text("a"), Text("b")>>)
                  @@ ("V" :> <<Text("1"), Text("3"), Text("a")>>),
              <<"K", "V">>)

\* options=["count", "mean", "max", "min"]
PageFunctions == {"count", "mean", "max", "min"}

\* a dict in which the function set first for a column stays
RECURSIVE build_agg_dict_first_wins(_, _)
build_agg_dict_first_wins(rules, agg_dict) ==
    IF rules = <<>>
    THEN agg_dict
    ELSE build_agg_dict_first_wins(
             Tail(rules),
             IF \E k \in 1..Len(agg_dict) : agg_dict[k].col = Head(rules)[1]
             THEN agg_dict
             ELSE Append(agg_dict, Rule(Head(rules)[1], Head(rules)[2])))

\* for (col, func) in agg_rules: agg_dict[col] = func, as the list of the dict's
\* items: a key stays where it was first set and takes the value set last
RECURSIVE build_agg_dict(_, _)
build_agg_dict(rules, agg_dict) ==
    IF rules = <<>>
    THEN agg_dict
    ELSE LET col == Head(rules)[1]
             func == Head(rules)[2]
         IN  build_agg_dict(
                 Tail(rules),
                 IF \E k \in 1..Len(agg_dict) : agg_dict[k].col = col
                 THEN [k \in 1..Len(agg_dict) |->
                          IF agg_dict[k].col = col THEN Rule(col, func) ELSE agg_dict[k]]
                 ELSE Append(agg_dict, Rule(col, func)))

\* nothing is shown under "Result"
NoResult == [shown |-> FALSE, group_col |-> "", out |-> Returned(NoFrame)]

AggPageIdle == [agg_rules |-> <<>>, agg_dict |-> <<>>, result |-> NoResult]

\* a run of the script with the rules as they are now
Rerun(rules) ==
    [agg_rules |-> rules, agg_dict |-> build_agg_dict(rules, <<>>), result |-> NoResult]

\* the button "Add Rule"
AddRule ==
    /\ Len(agg_page.agg_rules) < MaxRules
    /\ \E target_col \in Range(PageTable.columns), agg_func \in PageFunctions :
          agg_page' =
              Rerun(IF Has(agg_page.agg_rules, <<target_col, agg_func>>)
                    THEN agg_page.agg_rules
                    ELSE Append(agg_page.agg_rules, <<target_col, agg_func>>))
    /\ UNCHANGED <<tok, parser, jcall, heap, frames, dicts, made, fcall, gcall,
                   filter_page>>

\* the button that deletes rule i
DeleteRule ==
    /\ \E i \in 0..(Len(agg_page.agg_rules) - 1) :
          agg_page' = Rerun(Pop(agg_page.agg_rules, i))
    /\ UNCHANGED <<tok, parser, jcall, heap, frames, dicts, made, fcall, gcall,
                   filter_page>>

\* the button "Apply Grouping & Aggregation", disabled while agg_dict is empty
ApplyRules ==
    /\ agg_page.agg_dict # <<>>
    /\ \E group_col \in Range(PageTable.columns) :
          LET grouped_df == groupby(PageTable, group_col) IN
          agg_page' =
              [Rerun(agg_page.agg_rules) EXCEPT
                  !.result = [shown |-> TRUE,
                              group_col |-> group_col,
                              out |-> IF grouped_df.kind = "ok"
                                      THEN agg(grouped_df, agg_page.agg_dict)
                                      ELSE Raised(grouped_df.kind, grouped_df.msg,
                                                  grouped_df.arg)]]
    /\ UNCHANGED <<tok, parser, jcall, heap, frames, dicts, made, fcall, gcall,
                   filter_page>>

(***************************************************************************)
(* Specifications                                                          *)
(***************************************************************************)
EngineIdle ==
    /\ heap = <<>>
    /\ frames = <<>>
    /\ dicts = {}
    /\ made = <<>>

\* no groupby call and no page
PagesIdle == gcall = GroupIdle /\ filter_page = FilterPageIdle /\ agg_page = AggPageIdle

\* a session of calls on the engine
Init ==
    EngineInit /\ tok = TokIdle /\ parser = ParserIdle /\ jcall = JoinIdle /\ fcall = FrameIdle /\ PagesIdle

Next ==
    \/ EFilterMask
    \/ EFilterPred
    \/ EProject
    \/ EHead
    \/ EGroupByAgg
    \/ EJoin
    \/ EToDict
    \/ CallerAppend

Spec == Init /\ [][Next]_vars

\* the tokenizer alone
InitTok == TokInit /\ parser = ParserIdle /\ jcall = JoinIdle /\ EngineIdle /\ PagesIdle /\ fcall = FrameIdle

NextTok == TokQuote \/ TokSeparator \/ TokAccumulate \/ TokFinish

SpecTok == InitTok /\ [][NextTok]_vars

\* the parser alone
InitParse == ParserInit /\ tok = TokIdle /\ jcall = JoinIdle /\ EngineIdle /\ PagesIdle /\ fcall = FrameIdle

NextParse == ParseCall

SpecParse == InitParse /\ [][NextParse]_vars

\* the join alone
InitJoin == JoinInit /\ tok = TokIdle /\ parser = ParserIdle /\ EngineIdle /\ PagesIdle /\ fcall = FrameIdle

NextJoin == JoinCall

SpecJoin == InitJoin /\ [][NextJoin]_vars

\* calls on a DataFrame
InitFrame ==
    FrameInit /\ tok = TokIdle /\ parser = ParserIdle /\ jcall = JoinIdle /\ EngineIdle /\ PagesIdle

NextFrame ==
    \/ FFilterMask
    \/ FFilterPred
    \/ FGetItemList
    \/ FGetItemStr
    \/ FHead
    \/ FCompare
    \/ FThenGetItemList
    \/ FThenFilterMask
    \/ FThenFilterPred

SpecFrame == InitFrame /\ [][NextFrame]_vars

\* groupby and agg
InitGroup ==
    /\ GroupInit /\ tok = TokIdle /\ parser = ParserIdle /\ jcall = JoinIdle /\ EngineIdle
    /\ fcall = FrameIdle /\ filter_page = FilterPageIdle /\ agg_page = AggPageIdle

NextGroup == GGroupBy \/ GAgg \/ GRegroup

SpecGroup == InitGroup /\ [][NextGroup]_vars

\* the filters of the filtering page
InitFilterPage ==
    /\ filter_page = FilterPageIdle
    /\ tok = TokIdle /\ parser = ParserIdle /\ jcall = JoinIdle /\ EngineIdle
    /\ fcall = FrameIdle /\ gcall = GroupIdle /\ agg_page = AggPageIdle

NextFilterPage == AddFilter \/ RemoveFilter \/ AddFiltersToChain

SpecFilterPage == InitFilterPage /\ [][NextFilterPage]_vars

\* the rules of the aggregation page
InitAggPage ==
    /\ agg_page = AggPageIdle
    /\ tok = TokIdle /\ parser = ParserIdle /\ jcall = JoinIdle /\ EngineIdle
    /\ fcall = FrameIdle /\ gcall = GroupIdle /\ filter_page = FilterPageIdle

NextAggPage == AddRule \/ DeleteRule \/ ApplyRules

SpecAggPage == InitAggPage /\ [][NextAggPage]_vars

(***************************************************************************)
(* Claims about the join (checked under SpecJoin)                          *)
(***************************************************************************)
JoinDone == jcall.pc = "done"

JoinReturned == JoinDone /\ jcall.out.kind = "ok"

\* a Table as the data model has it: unique names, one list per name, every
\* list as long as the row count
WellFormed(df) ==
    /\ Distinct(df.columns)
    /\ DOMAIN df.data = Range(df.columns)
    /\ \A c \in DOMAIN df.data : Len(df.data[c]) = df.shape[1]
    /\ df.shape[2] = Len(df.columns)

\* the matching pairs <<left row, right row>>
MatchSet(left, right, left_on, right_on) ==
    {p \in (1..Len(left.data[left_on])) \X (1..Len(right.data[right_on])) :
        PyEq(left.data[left_on][p[1]], right.data[right_on][p[2]])}

\* a finite set of pairs of numbers as the list sorted by first, then second
RECURSIVE SortedPairs(_)
SortedPairs(S) ==
    IF S = {}
    THEN <<>>
    ELSE LET lo == CHOOSE p \in S :
                     \A q \in S : p[1] < q[1] \/ (p[1] = q[1] /\ p[2] <= q[2])
         IN  <<lo>> \o SortedPairs(S \ {lo})

JoinKeysDiffer == jcall.args.left_on.name # jcall.args.right_on.name

\* C3: a join of two well-formed Tables on existing key columns returns a Table
\* with unique column names in which every column holds one value per matching
\* pair, of shape (matching pairs, result columns).
C3_JoinResultWellFormed ==
    (JoinReturned /\ WellFormed(jcall.left) /\ WellFormed(jcall.right)) =>
        /\ WellFormed(jcall.out.df)
        /\ jcall.out.df.shape[1] =
               Cardinality(MatchSet(jcall.left, jcall.right,
                                    jcall.args.left_on.name, jcall.args.right_on.name))

\* the right columns the result keeps: all, but the key when both keys have one name
KeptRight(right, left_on, right_on) ==
    LET keep == {k \in 1..Len(right.columns) :
                    ~(right.columns[k] = right_on /\ left_on = right_on)}
        RECURSIVE Pick(_)
        Pick(k) == IF k > Len(right.columns) THEN <<>>
                   ELSE (IF k \in keep THEN <<right.columns[k]>> ELSE <<>>) \o Pick(k + 1)
    IN  Pick(1)

\* C4: the rows of the result are, for each left row in order and each right row
\* in order with an equal key, the left row's cells followed by the right row's
\* cells; the row count is the number of such pairs.
C4_JoinRows ==
    JoinReturned =>
        LET left == jcall.left
            right == jcall.right
            l_on == jcall.args.left_on.name
            r_on == jcall.args.right_on.name
            pairs == SortedPairs(MatchSet(left, right, l_on, r_on))
            kept == KeptRight(right, l_on, r_on)
            df == jcall.out.df
            LeftRow(i) == [p \in 1..Len(left.columns) |-> left.data[left.columns[p]][i]]
            RightRow(j) == [q \in 1..Len(kept) |-> right.data[kept[q]][j]]
        IN  /\ df.shape[1] = Len(pairs)
            /\ \A c \in DOMAIN df.data : Len(df.data[c]) = Len(pairs)
            /\ \A k \in 1..Len(pairs) :
                  [p \in 1..Len(df.columns) |-> df.data[df.columns[p]][k]]
                      = LeftRow(pairs[k][1]) \o RightRow(pairs[k][2])

\* the names the claim gives the result: a name that is no key and is in both
\* Tables is suffixed, every other name is kept
ClaimedLeftName(c, right, l_on, r_on) ==
    IF c \in Range(right.columns) /\ c \notin {l_on, r_on} THEN c \o "_left" ELSE c

ClaimedRightName(c, left, l_on, r_on) ==
    IF c \in Range(left.columns) /\ c \notin {l_on, r_on} THEN c \o "_right" ELSE c

ClaimedColumns(left, right, l_on, r_on) ==
    LET kept == KeptRight(right, l_on, r_on) IN
    [p \in 1..Len(left.columns) |-> ClaimedLeftName(left.columns[p], right, l_on, r_on)]
    \o [q \in 1..Len(kept) |-> ClaimedRightName(kept[q], left, l_on, r_on)]

\* C5: the result's columns are the left columns, then the right columns without
\* the key when the two keys have the same name; with differing key names both
\* key columns are in the result; also for inputs with no row.
C5_JoinColumns ==
    JoinReturned =>
        jcall.out.df.columns =
            ClaimedColumns(jcall.left, jcall.right,
                           jcall.args.left_on.name, jcall.args.right_on.name)

\* the preconditions of a join, numbered in the order the code checks them
JoinPre(k) ==
    CASE k = 1 -> jcall.args.right_is_df
      [] k = 2 -> jcall.args.left_on.is_str /\ jcall.args.right_on.is_str
      [] k = 3 -> jcall.args.how = "inner"
      [] k = 4 -> jcall.args.left_on.is_str
                  /\ jcall.args.left_on.name \in Range(jcall.left.columns)
      [] k = 5 -> jcall.args.right_on.is_str
                  /\ jcall.args.right_on.name \in Range(jcall.right.columns)

\* what the failure of precondition k is reported as: the class of the error and
\* the side or kind it names
JoinReports(k) ==
    CASE k = 1 -> jcall.out.kind = "TypeError"
                  /\ jcall.out.msg = "right_df must be a DataFrame object"
      [] k = 2 -> jcall.out.kind = "TypeError"
                  /\ jcall.out.msg = "left_on and right_on must be strings"
      [] k = 3 -> jcall.out.kind = "ValueError" /\ jcall.out.arg = jcall.args.how
      [] k = 4 -> jcall.out.kind = "KeyError"
                  /\ jcall.out.msg = "Column not found in left DataFrame."
      [] k = 5 -> jcall.out.kind = "KeyError"
                  /\ jcall.out.msg = "Column not found in right DataFrame."

\* the first of the preconditions in `order` that fails is the one reported, and
\* a call that fails returns no Table
ReportsFirstOf(order) ==
    LET failing == {i \in 1..Len(order) : ~JoinPre(order[i])} IN
    IF failing = {}
    THEN TRUE
    ELSE /\ JoinReports(order[CHOOSE i \in failing : \A j \in failing : i <= j])
         /\ jcall.out.df = NoFrame

\* C6 as stated: the preconditions are right is a Table, the keys are strings,
\* left_key is in left, right_key is in right, and the first that fails is reported.
C6_AsStated == JoinDone => ReportsFirstOf(<<1, 2, 4, 5>>)

\* C6, amended: the kind is checked after the keys' types and before the keys'
\* existence; the first of the five checks that fails is the one reported, and
\* the call returns a Table only when none fails.
C6_JoinCheckOrder ==
    JoinDone =>
        /\ ReportsFirstOf(<<1, 2, 3, 4, 5>>)
        /\ (jcall.out.kind = "ok") = (\A k \in 1..5 : JoinPre(k))

C6_Witness ==
    /\ JoinDone
    /\ ~JoinPre(3) /\ ~JoinPre(4) /\ ~JoinPre(5)
    /\ jcall.out.kind = "ValueError"

\* C7 as stated: every call with a kind other than "inner" fails with the
\* unsupported-join-type error naming the kind.
C7_AsStated ==
    (JoinDone /\ jcall.args.how # "inner") =>
        /\ jcall.out.kind = "ValueError"
        /\ jcall.out.arg = jcall.args.how
        /\ jcall.out.df = NoFrame

\* C7, amended: a call with a kind other than "inner" returns no Table; it fails
\* with the unsupported-join-type error naming the kind when right is a Table
\* and both keys are strings, and with a TypeError otherwise.
C7_UnsupportedKind ==
    (JoinDone /\ jcall.args.how # "inner") =>
        /\ jcall.out.df = NoFrame
        /\ IF JoinPre(1) /\ JoinPre(2)
           THEN jcall.out.kind = "ValueError" /\ jcall.out.arg = jcall.args.how
           ELSE jcall.out.kind = "TypeError"

C7_Witness ==
    /\ JoinDone
    /\ jcall.args.how = "left"
    /\ jcall.args.left_on.name \in Range(jcall.left.columns)
    /\ jcall.args.right_on.name \in Range(jcall.right.columns)
    /\ jcall.args.right_is_df
    /\ jcall.out.kind = "ValueError"

(***************************************************************************)
(* Claims about the objects of a session (Spec)                            *)
(***************************************************************************)
\* the step is the caller's: a cell appended to a list of a dict it holds
CallerStep ==
    /\ frames' = frames
    /\ \E d \in dicts : \E c \in DOMAIN d :
          heap' = [heap EXCEPT ![d[c]] = Append(@, Marker)]

\* every DataFrame of the session has the columns and the cells it had
InputsKept ==
    /\ Len(frames') >= Len(frames)
    /\ Len(heap') >= Len(heap)
    /\ \A i \in 1..Len(frames) :
          /\ frames'[i] = frames[i]
          /\ Deref(heap', frames'[i]) = Deref(heap, frames[i])

\* C1: a call of filter (by mask or by predicate), list projection, head,
\* groupby and agg, or join, whether it returns or raises, leaves the column
\* names and every column's cells of each DataFrame it was given as they were.
C1_InputsUnchanged == [][~CallerStep => InputsKept]_vars

\* a filter has returned a DataFrame of one row, and the DataFrame it was called
\* on still holds its two rows
C1_Witness ==
    /\ Len(frames) >= 2
    /\ made[2] = "filter_mask"
    /\ frames[2].shape[1] = 1
    /\ Deref(heap, frames[1]).data["A"] = <<Text("a"), Text("b")>>
    /\ Deref(heap, frames[2]).data["A"] = <<Text("a")>>

\* C2: no two DataFrames hold the same list, and a dict that to_dict returned
\* holds no list of a DataFrame: appending to a list of a result never changes
\* the cells of another DataFrame.
C2_NoSharedLists ==
    /\ \A i, j \in 1..Len(frames) :
          i # j => Addrs(frames[i].data) \cap Addrs(frames[j].data) = {}
    /\ \A d \in dicts : \A i \in 1..Len(frames) :
          Addrs(d) \cap Addrs(frames[i].data) = {}

(***************************************************************************)
(* Claims about the tokenizer (SpecTok) and the parser (SpecParse)         *)
(***************************************************************************)
QuotesBefore(line, i) == Cardinality({j \in 1..(i - 1) : line[j] = QUOTE})

\* the positions of the separators that are outside quotes
SepPositions(line, separator) ==
    {i \in 1..Len(line) :
        line[i] = separator /\ line[i] # QUOTE /\ QuotesBefore(line, i) % 2 = 0}

FieldCount(line, separator) == 1 + Cardinality(SepPositions(line, separator))

\* a text without its leading and trailing whitespace
Trimmed(raw) ==
    LET solid == {i \in 1..Len(raw) : raw[i] \notin Whitespace} IN
    IF solid = {}
    THEN <<>>
    ELSE SubSeq(raw, CHOOSE i \in solid : \A j \in solid : i <= j,
                     CHOOSE i \in solid : \A j \in solid : i >= j)

IsNotQuote(c) == c # QUOTE

\* the k-th field of a line: what lies between the separators outside quotes
\* around it, without the quote characters, trimmed
FieldText(line, separator, k) ==
    LET seps == SepPositions(line, separator)
        Nth(n) == CHOOSE i \in seps : Cardinality({j \in seps : j < i}) = n - 1
        from == IF k = 1 THEN 1 ELSE Nth(k - 1) + 1
        to == IF k = Cardinality(seps) + 1 THEN Len(line) ELSE Nth(k) - 1
    IN  Trimmed(SelectSeq(SubSeq(line, from, to), IsNotQuote))

\* C9: a quote character toggles the inside-quotes state and is in no field's
\* text; a separator splits fields only outside quotes, so a line has one field
\* more than it has separators outside quotes; each field is the text between
\* them without its leading and trailing whitespace.
C9_Tokenizing ==
    /\ tok.pc \in {"scan", "done"} =>
          /\ tok.st.in_quotes = (QuotesBefore(tok.line, tok.pos) % 2 = 1)
          /\ QUOTE \notin Range(tok.st.current_value)
          /\ \A k \in 1..Len(tok.st.values) : QUOTE \notin Range(tok.st.values[k])
    /\ tok.pc = "done" =>
          /\ Len(tok.values) = FieldCount(tok.line, tok.separator)
          /\ \A k \in 1..Len(tok.values) :
                tok.values[k] = FieldText(tok.line, tok.separator, k)

C9_Witness ==
    /\ tok.pc = "done"
    /\ tok.separator = ","
    /\ tok.line = <<QUOTE, "a", ",", "a", QUOTE>>
    /\ tok.values = << <<"a", ",", "a">> >>

ParseDone == parser.pc = "done"

IsBlank(line) == Trimmed(line) = <<>>

\* the data lines that are not blank, by their position in the file
DataLines == {i \in 2..Len(parser.lines) : ~IsBlank(parser.lines[i])}

HeaderCount == FieldCount(Trimmed(parser.lines[1]), parser.separator)

\* C8: when every data row has the header's field count, the parsed Table has
\* unique column names and one cell per column and data row: its shape is
\* (non-blank data lines, header tokens).
C8_ParsedWellFormed ==
    (ParseDone /\ parser.out.kind = "ok" /\ parser.lines # <<>>) =>
        /\ WellFormed(parser.out.df)
        /\ parser.out.df.shape = <<Cardinality(DataLines), HeaderCount>>

\* the data lines whose field count is not the header's
BadLines ==
    {i \in DataLines : FieldCount(parser.lines[i], parser.separator) # HeaderCount}

\* C10: when a non-blank data line has another number of fields than the header,
\* parse fails with the error that states the expected and the found count of
\* the first such line, and returns no Table.
C10_SchemaError ==
    (ParseDone /\ parser.exists /\ parser.lines # <<>> /\ BadLines # {}) =>
        LET first == CHOOSE i \in BadLines : \A j \in BadLines : i <= j IN
        /\ parser.out.kind = "ValueError"
        /\ parser.out.expected = HeaderCount
        /\ parser.out.found = FieldCount(parser.lines[first], parser.separator)
        /\ parser.out.df = NoFrame

\* two bad lines with different counts after a good one-field header
C10_Witness ==
    /\ ParseDone
    /\ parser.out.kind = "ValueError"
    /\ parser.out.expected = 2
    /\ parser.out.found = 1
    /\ \E i, j \in BadLines :
          /\ i < j
          /\ FieldCount(parser.lines[j], parser.separator) = 3

NotBlank(line) == ~IsBlank(line)

\* C11: lines that are blank after trimming are ignored wherever they stand, so
\* a file parses as the file without its blank lines does (the same columns,
\* rows and cells, or an error of the same kind): the header is the first line
\* that is not blank.
C11_BlankLinesIgnored ==
    (ParseDone /\ parser.exists) =>
        LET ref == parse(TRUE, SelectSeq(parser.lines, NotBlank), parser.separator) IN
        /\ parser.out.kind = ref.kind
        /\ parser.out.df = ref.df

\* C28: when parse raises the ValueError of a row, the row number is the
\* position of the offending line in the file counted from 1, the header being
\* line 1 and the blank lines before it counted; the line is the first one that
\* is not blank and whose field count is not the header's
C28_RowNumber ==
    (ParseDone /\ parser.out.kind = "ValueError") =>
        /\ BadLines # {}
        /\ parser.out.row \in BadLines
        /\ \A j \in BadLines : parser.out.row <= j

\* a blank line between the header and the first bad line
C28_Witness ==
    /\ ParseDone
    /\ Len(parser.lines) = 3
    /\ ~IsBlank(parser.lines[1])
    /\ IsBlank(parser.lines[2])
    /\ parser.out.kind = "ValueError"
    /\ parser.out.row = 3

(***************************************************************************)
(* Claims about the calls on a DataFrame (SpecFrame)                       *)
(***************************************************************************)
FrameCalled == Len(fcall.outs) >= 1

FirstOp == fcall.ops[1]

FirstOut == fcall.outs[1]

\* the first call is `op` and it returned
FirstReturned(op) == FrameCalled /\ FirstOp.op = op /\ FirstOut.kind = "ok"

\* a list of column names, as opposed to a mask
IsNames(item) == \A k \in 1..Len(item) : item[k].t = "str"

IsBools(item) == \A k \in 1..Len(item) : item[k].t = "bool"

\* C12: a filter, a list projection (of any list of existing names, an empty
\* one and one that repeats a name included) or a head that returns, called on
\* a well-formed Table, returns a well-formed Table: unique column names, every
\* column of one length, shape (that length, number of column names).
C12_ResultWellFormed ==
    (/\ FrameCalled
     /\ WellFormed(fcall.df)
     /\ FirstOp.op \in {"filter_mask", "filter_pred", "getitem_list", "head"}
     /\ FirstOut.kind = "ok") => WellFormed(FirstOut.df)

\* the k-th smallest of a set of row positions
NthOf(S, k) == CHOOSE i \in S : Cardinality({j \in S : j < i}) = k - 1

\* res has the columns of T in T's order, and as rows the rows of T at the
\* positions S, in their order in T
RowsAre(res, T, S) ==
    /\ res.columns = T.columns
    /\ DOMAIN res.data = Range(T.columns)
    /\ \A c \in Range(T.columns) :
          res.data[c] = [k \in 1..Cardinality(S) |-> T.data[c][NthOf(S, k)]]
    /\ res.shape = <<Cardinality(S), Len(T.columns)>>

\* the rows a mask marks, and the rows a predicate row[col] == val is true of
MarkedRows(mask) == {i \in 1..Len(mask) : mask[i].b}

TrueRows(T, pred) == {i \in 1..T.shape[1] : PyEq(T.data[pred.col][i], pred.val)}

\* C13: filter returns the columns of T in T's order and exactly the rows of T
\* where the mask is true, or where the predicate is true, in their order in
\* T; when no row is kept the result has no row and all of T's columns.
C13_FilterRows ==
    /\ FirstReturned("filter_mask") =>
          RowsAre(FirstOut.df, fcall.df, MarkedRows(FirstOp.list))
    /\ FirstReturned("filter_pred") =>
          RowsAre(FirstOut.df, fcall.df, TrueRows(fcall.df, FirstOp.pred))

\* a mask that keeps the second of two different rows
C13_Witness ==
    /\ FirstReturned("filter_mask")
    /\ FirstOp.list = <<BoolEl(FALSE), BoolEl(TRUE)>>
    /\ fcall.df.data["A"] = <<Text("a"), Text("b")>>
    /\ FirstOut.df.data["A"] = <<Text("b")>>
    /\ FirstOut.df.shape = <<1, 2>>

\* the text that reports the length of the mask and the number of rows
ReportsLengths(msg, mask_len, num_rows) ==
    msg = "Boolean mask length (" \o ToString(mask_len)
              \o ") does not match DataFrame length (" \o ToString(num_rows) \o ")"

FirstIs(op) == FrameCalled /\ FirstOp.op = op

\* C14: a mask whose length is not the number of rows raises ValueError with
\* both lengths in its message, whether it is shorter or longer; a mask of the
\* right length with an element that is not a bool raises TypeError; neither
\* returns a DataFrame
C14_MaskRejected ==
    FirstIs("filter_mask") =>
        LET mask == FirstOp.list
            N == fcall.df.shape[1] IN
        /\ Len(mask) # N =>
               /\ FirstOut.kind = "ValueError"
               /\ ReportsLengths(FirstOut.msg, Len(mask), N)
               /\ FirstOut.df = NoFrame
        /\ (Len(mask) = N /\ ~IsBools(mask)) =>
               /\ FirstOut.kind = "TypeError"
               /\ FirstOut.df = NoFrame

\* a mask of three for two rows
C14_Witness ==
    /\ FirstIs("filter_mask")
    /\ fcall.df.shape[1] = 2
    /\ Len(FirstOp.list) = 3
    /\ FirstOut.kind = "ValueError"
    /\ FirstOut.msg = "Boolean mask length (3) does not match DataFrame length (2)"

\* C15 as stated: for every list m of bools, the empty one included, T[m] has
\* the outcome of T.filter(m)
C15_AsStated ==
    (FirstIs("getitem_list") /\ IsBools(FirstOp.list)) =>
        FirstOut = filter_mask(fcall.df, FirstOp.list)

\* C15: for every non-empty list m whose first element is a bool, T[m] has the
\* outcome of T.filter(m), the same DataFrame or the same error; the empty list
\* is a list of no column names, and T[[]] returns the DataFrame of no columns
C15_MaskAlias ==
    FirstIs("getitem_list") =>
        LET m == FirstOp.list IN
        /\ (m # <<>> /\ m[1].t = "bool") => FirstOut = filter_mask(fcall.df, m)
        /\ m = <<>> => (FirstOut.kind = "ok" /\ FirstOut.df.columns = <<>>)

\* T[[False, True]] on two different rows
C15_Witness ==
    /\ FirstIs("getitem_list")
    /\ FirstOp.list = <<BoolEl(FALSE), BoolEl(TRUE)>>
    /\ fcall.df.data["A"] = <<Text("b"), Text("a")>>
    /\ FirstOut.kind = "ok"
    /\ FirstOut.df.columns = <<"A", "B">>
    /\ FirstOut.df.data["A"] = <<Text("a")>>

\* both calls of a chain were made
SecondCalled == Len(fcall.outs) = 2

\* every name of the list is a column of df
Existing(df, cols) == IsNames(cols) /\ \A k \in 1..Len(cols) : Has(df.columns, cols[k].s)

\* T[cols].filter(mask)
project_then_filter(df, cols, mask) ==
    LET projected == getitem_list(df, cols) IN
    IF projected.kind = "ok" THEN filter_mask(projected.df, mask) ELSE projected

\* C16: for every mask of T's number of rows and every list cols of existing
\* names, the empty list included, T.filter(mask)[cols] has the outcome of
\* T[cols].filter(mask)
C16_ProjectFilterCommute ==
    (/\ SecondCalled
     /\ fcall.ops[1].op = "filter_mask" /\ fcall.ops[2].op = "getitem_list"
     /\ IsBools(fcall.ops[1].list) /\ Len(fcall.ops[1].list) = fcall.df.shape[1]
     /\ Existing(fcall.df, fcall.ops[2].list))
        => fcall.outs[2] = project_then_filter(fcall.df, fcall.ops[2].list, fcall.ops[1].list)

\* C17: T.filter(P).filter(P) returns what T.filter(P) returned: the same
\* columns and the same rows in the same order
C17_FilterIdempotent ==
    (/\ SecondCalled
     /\ fcall.ops[1].op = "filter_pred" /\ fcall.ops[2] = fcall.ops[1])
        => /\ fcall.outs[2].kind = "ok"
           /\ fcall.outs[2].df = fcall.outs[1].df
           /\ fcall.outs[2].df.columns = fcall.df.columns

\* two rows the predicate is true of and kept twice
C17_Witness ==
    /\ SecondCalled
    /\ fcall.ops[1].op = "filter_pred" /\ fcall.ops[2] = fcall.ops[1]
    /\ fcall.ops[1].pred = PredEq("A", Text("a"))
    /\ fcall.df.shape = <<2, 2>>
    /\ fcall.df.data["B"] = <<Text("1"), IntCell(2)>>
    /\ fcall.outs[1].df.shape = <<2, 2>>
    /\ fcall.outs[2].df.data["B"] = <<Text("1"), IntCell(2)>>

\* C18: T[cols] for a list cols of existing names, the empty list included,
\* returns a DataFrame with the columns cols in the order given, T's number of
\* rows, and T's cells in each of them
C18_ProjectionKeepsRows ==
    (FirstIs("getitem_list") /\ Existing(fcall.df, FirstOp.list)) =>
        /\ FirstOut.kind = "ok"
        /\ FirstOut.df.columns = [k \in 1..Len(FirstOp.list) |-> FirstOp.list[k].s]
        /\ FirstOut.df.shape[1] = fcall.df.shape[1]
        /\ \A k \in 1..Len(FirstOp.list) :
              FirstOut.df.data[FirstOp.list[k].s] = fcall.df.data[FirstOp.list[k].s]

\* the names of the list that are not columns of df, in the order of the list
AbsentNames(df, cols) ==
    LET Absent(el) == ~Has(df.columns, el.s) IN SelectSeq(cols, Absent)

\* C19: T[cols] with a name that is not a column raises KeyError, and its
\* message lists all the names that are missing and no name that exists;
\* T[name] with a name that is not a column raises KeyError naming it; neither
\* returns a DataFrame or a Series
C19_MissingColumnsListed ==
    /\ (FirstIs("getitem_list") /\ IsNames(FirstOp.list)
             /\ ~Existing(fcall.df, FirstOp.list)) =>
           /\ FirstOut.kind = "KeyError"
           /\ FirstOut.msg = "Columns " \o repr_list(AbsentNames(fcall.df, FirstOp.list))
                                 \o " not found in DataFrame."
           /\ FirstOut.df = NoFrame
    /\ (FirstIs("getitem_str") /\ ~Has(fcall.df.columns, FirstOp.name)) =>
           /\ FirstOut.kind = "KeyError"
           /\ FirstOut.msg = "Column '" \o FirstOp.name \o "' not found in DataFrame."

\* T[['Z', 'A', 'Y']] where A is a column and Z and Y are not
C19_Witness ==
    /\ FirstIs("getitem_list")
    /\ FirstOp.list = <<NameEl("Z"), NameEl("A"), NameEl("Y")>>
    /\ fcall.df.columns = <<"A", "B">>
    /\ FirstOut.kind = "KeyError"
    /\ FirstOut.msg = "Columns ['Z', 'Y'] not found in DataFrame."

\* C20: T[name] > x, >= x, < x, <= x returns a list of bools of the column's
\* length and never raises: False for an element that is None, and False for an
\* element that x cannot be ordered with
C20_ComparisonNeverFails ==
    (FirstIs("compare") /\ Has(fcall.df.columns, FirstOp.name)) =>
        LET column == fcall.df.data[FirstOp.name] IN
        /\ FirstOut.kind = "ok"
        /\ Len(FirstOut.values) = Len(column)
        /\ IsBools(FirstOut.values)
        /\ \A i \in 1..Len(column) :
              (column[i] = None \/ ~Comparable(column[i], FirstOp.other))
                  => FirstOut.values[i].b = FALSE

\* the first n elements of a list, all of them when n is more than there are
FirstN(list, n) == SubSeq(list, 1, Min(n, Len(list)))

\* C21: for every int n, T.head(n) returns a DataFrame with T's columns, each
\* holding the first n cells of T's column in order (all of them when n is more
\* than T's number of rows), and with that many rows
C21_HeadFirstRows ==
    FirstIs("head") =>
        /\ FirstOut.kind = "ok"
        /\ FirstOut.df.columns = fcall.df.columns
        /\ \A c \in Range(fcall.df.columns) :
              /\ FirstOut.df.data[c] = FirstN(fcall.df.data[c], FirstOp.n)
              /\ FirstOut.df.shape[1] = Len(FirstN(fcall.df.data[c], FirstOp.n))

(***************************************************************************)
(* Claims about groupby and agg (SpecGroup)                                *)
(***************************************************************************)
\* agg was called on the groups of gcall.df
Agged == gcall.pc \in {"agged", "done"}

\* the functions of the rules that agg does not know, in rule order
UnknownFunctions ==
    LET Unknown(rule) == rule.func \notin {"max", "min", "mean", "count"} IN
    SelectSeq(gcall.agg_dict, Unknown)

\* C22: for every grouping, the one of a DataFrame without rows included, agg
\* with a rule whose function is not max, min, mean or count raises ValueError
\* naming that function and returns no DataFrame
C22_UnknownFunctionRejected ==
    (Agged /\ UnknownFunctions # <<>>) =>
        /\ gcall.out.kind = "ValueError"
        /\ gcall.out.arg = UnknownFunctions[1].func
        /\ gcall.out.df = NoFrame

\* agg returned a DataFrame
AggReturned == Agged /\ gcall.out.kind = "ok"

\* <target_column>_<function> for each rule, in rule order
RuleNames(agg_dict) == [r \in 1..Len(agg_dict) |-> agg_dict[r].col \o "_" \o agg_dict[r].func]

\* the keys of the groups, in the order of the groups
GroupKeys(grouped) == [g \in 1..Len(grouped.groups) |-> grouped.groups[g].key]

Ascending(keys) == \A i, j \in 1..Len(keys) : i < j => PyLess(keys[i], keys[j])

\* C23: the DataFrame agg returns has the key column first, holding the distinct
\* keys in ascending order, then one column per rule in rule order, named
\* <target_column>_<function>; every column holds one value per group, and no
\* two columns have the same name, whatever the key column is called
C23_AggResultLayout ==
    AggReturned =>
        LET res == gcall.out.df
            keys == GroupKeys(gcall.grouped) IN
        /\ res.columns = <<gcall.grouped.by>> \o RuleNames(gcall.agg_dict)
        /\ Cardinality(Range(res.columns)) = Len(res.columns)
        /\ res.data[gcall.grouped.by] = keys
        /\ Ascending(keys)
        /\ \A c \in Range(res.columns) : Len(res.data[c]) = Len(keys)

\* the rows of df whose key cell equals the key, by position
RowsOfKey(df, by, key) == {i \in 1..df.shape[1] : PyEq(df.data[by][i], key)}

RECURSIVE SumOfCounts(_)
SumOfCounts(cells) == IF cells = <<>> THEN 0 ELSE Head(cells).n + SumOfCounts(Tail(cells))

\* C24: the count of a group is the number of rows of the group, whatever the
\* cells of the counted column are (None, empty, text or numerals), and the
\* counts of all groups add up to the number of rows of the DataFrame
C24_CountIsGroupSize ==
    AggReturned =>
        \A r \in 1..Len(gcall.agg_dict) :
            gcall.agg_dict[r].func = "count" =>
                LET counts == gcall.out.df.data[RuleNames(gcall.agg_dict)[r]]
                    keys == GroupKeys(gcall.grouped) IN
                /\ Len(counts) = Len(keys)
                /\ \A g \in 1..Len(keys) :
                      counts[g] = IntCell(Cardinality(
                                      RowsOfKey(gcall.df, gcall.grouped.by, keys[g])))
                /\ SumOfCounts(counts) = gcall.df.shape[1]

\* one group of two rows whose counted cells are None and the empty text
C24_Witness ==
    /\ AggReturned
    /\ gcall.agg_dict = <<Rule("V", "count")>>
    /\ gcall.grouped.by = "K"
    /\ gcall.df.data["V"] = <<None, Text("")>>
    /\ gcall.out.df.data["V_count"] = <<IntCell(2)>>

\* the cells of column col in the rows of df whose key cell equals the key, in
\* the order of the rows
GroupCells(df, by, key, col) ==
    LET InGroup(i) == PyEq(df.data[by][i], key)
        rows == SelectSeq([i \in 1..df.shape[1] |-> i], InGroup) IN
    [k \in 1..Len(rows) |-> df.data[col][rows[k]]]

\* the numbers that the cells that coerce to a number stand for
Coerced(cells) == LET fs == SelectSeq(cells, FloatOk) IN [k \in 1..Len(fs) |-> to_float(fs[k])]

\* the sum of whole numbers
RECURSIVE Total(_)
Total(nums) == IF nums = <<>> THEN 0 ELSE Head(nums).n + Total(Tail(nums))

\* whether the cell is the float that max, min or mean of the numbers is
IsAggregate(func, cell, nums) ==
    /\ cell.t = "float"
    /\ func = "max" => (Has(nums, cell) /\ \A k \in 1..Len(nums) : ~PyLess(cell, nums[k]))
    /\ func = "min" => (Has(nums, cell) /\ \A k \in 1..Len(nums) : ~PyLess(nums[k], cell))
    /\ func = "mean" => cell.n * Len(nums) = Total(nums) * cell.d

\* C25: max, min and mean of a group are taken over the cells of the group that
\* coerce to a number: text, the empty text and None are left out and not
\* counted as zero (mean divides by the number of cells that coerce); a group
\* without such a cell gets None, and the call returns
C25_NumericAggregates ==
    (Agged /\ gcall.agg_dict # <<>>
        /\ \A r \in 1..Len(gcall.agg_dict) :
              /\ gcall.agg_dict[r].func \in {"max", "min", "mean", "count"}
              /\ Has(gcall.df.columns, gcall.agg_dict[r].col)) =>
        /\ gcall.out.kind = "ok"
        /\ \A r \in 1..Len(gcall.agg_dict) :
              gcall.agg_dict[r].func \in {"max", "min", "mean"} =>
                  LET values == gcall.out.df.data[RuleNames(gcall.agg_dict)[r]]
                      keys == GroupKeys(gcall.grouped) IN
                  /\ Len(values) = Len(keys)
                  /\ \A g \in 1..Len(keys) :
                        LET nums == Coerced(GroupCells(gcall.df, gcall.grouped.by, keys[g],
                                                       gcall.agg_dict[r].col)) IN
                        IF nums = <<>>
                        THEN values[g] = None
                        ELSE IsAggregate(gcall.agg_dict[r].func, values[g], nums)

\* the mean of "1" and "a" in one group is 1.0
C25_Witness ==
    /\ AggReturned
    /\ gcall.agg_dict = <<Rule("V", "mean")>>
    /\ gcall.grouped.by = "K"
    /\ gcall.df.data["K"] = <<Text("a"), Text("a")>>
    /\ gcall.df.data["V"] = <<Text("1"), Text("a")>>
    /\ gcall.out.df.data["V_mean"] = <<FloatCell(1, 1)>>

\* the distinct values of a column
KeyValues(df, by) == {df.data[by][i] : i \in 1..df.shape[1]}

\* C26: groupby on a column of any DataFrame returns one group per distinct key
\* value, in ascending key order; each group holds, for every column, the cells
\* of the rows whose key cell equals the key, in their order; the groups share
\* no row and their row counts add up to the DataFrame's
C26_GroupsPartition ==
    (gcall.pc \notin {"idle", "call"} /\ gcall.grouped.kind # "KeyError") =>
        LET groups == gcall.grouped.groups
            by == gcall.grouped.by
            keys == GroupKeys(gcall.grouped) IN
        /\ gcall.grouped.kind = "ok"
        /\ Range(keys) = KeyValues(gcall.df, by)
        /\ Len(keys) = Cardinality(KeyValues(gcall.df, by))
        /\ Ascending(keys)
        /\ \A g \in 1..Len(groups) :
              /\ groups[g].df.columns = gcall.df.columns
              /\ \A c \in Range(gcall.df.columns) :
                    groups[g].df.data[c] = GroupCells(gcall.df, by, keys[g], c)
        /\ \A g, h \in 1..Len(groups) :
              g # h => RowsOfKey(gcall.df, by, keys[g]) \cap RowsOfKey(gcall.df, by, keys[h]) = {}
        /\ Total([g \in 1..Len(groups) |-> IntCell(groups[g].df.shape[1])]) = gcall.df.shape[1]

\* every cell is a str, as in the DataFrames the parser returns
StrOnly(df) == \A c \in Range(df.columns) : \A i \in 1..Len(df.data[c]) : df.data[c][i].t = "str"

\* C27: groupby raises only for a name that is not a column: on a DataFrame of
\* parsed cells, and on the DataFrame agg returned for it (whose columns hold
\* floats, ints and None), groupby on each of its columns returns
C27_GroupByFailsOnlyOnAbsent ==
    /\ (gcall.pc \notin {"idle", "call"} /\ StrOnly(gcall.df) /\ gcall.grouped.kind # "ok") =>
           (gcall.grouped.kind = "KeyError" /\ ~Has(gcall.df.columns, gcall.grouped.arg))
    /\ (gcall.pc = "done" /\ StrOnly(gcall.df)) => gcall.regrouped.kind = "ok"

(***************************************************************************)
(* Claims about the pages (SpecFilterPage, SpecAggPage)                    *)
(***************************************************************************)
\* C29: after any sequence of "Add Filter" and remove buttons, filter_logics is
\* empty when there are no filters or one, and otherwise has one entry fewer
\* than filters, so that filter_logics[i - 1] joins filters[i - 1] and filters[i]
C29_LogicsAligned ==
    IF Len(filter_page.filters) <= 1
    THEN filter_page.filter_logics = <<>>
    ELSE Len(filter_page.filter_logics) = Len(filter_page.filters) - 1

\* the columns that have a rule in the list
RuleColumns(rules) == {rules[k][1] : k \in 1..Len(rules)}

\* the function of the rule for col that stands last in the list: rules are
\* appended, so it is the one added most recently
LastFunction(rules, col) ==
    LET last == CHOOSE k \in 1..Len(rules) :
                    /\ rules[k][1] = col
                    /\ \A j \in (k + 1)..Len(rules) : rules[j][1] # col
    IN  rules[last][2]

\* C30: after any sequence of "Add Rule" and delete buttons the list holds no
\* (column, function) pair twice; the dict given to agg has one entry for each
\* column with a rule in the list, with the function of the rule added last for
\* it; and the result has the key column and one column per such column
C30_RulesMapping ==
    LET rules == agg_page.agg_rules
        agg_dict == agg_page.agg_dict IN
    /\ \A i, j \in 1..Len(rules) : i # j => rules[i] # rules[j]
    /\ {agg_dict[k].col : k \in 1..Len(agg_dict)} = RuleColumns(rules)
    /\ Len(agg_dict) = Cardinality(RuleColumns(rules))
    /\ \A k \in 1..Len(agg_dict) : agg_dict[k].func = LastFunction(rules, agg_dict[k].col)
    /\ agg_page.result.shown =>
          /\ agg_page.result.out.kind = "ok"
          /\ Len(agg_page.result.out.df.columns) = 1 + Cardinality(RuleColumns(rules))
          /\ \A c \in RuleColumns(rules) :
                Has(agg_page.result.out.df.columns, c \o "_" \o LastFunction(rules, c))

\* max of V, then count of K, then min of V: the result has V_min and K_count
C30_Witness ==
    /\ agg_page.agg_rules = << <<"V", "max">>, <<"K", "count">>, <<"V", "min">> >>
    /\ agg_page.agg_dict = <<Rule("V", "min"), Rule("K", "count")>>
    /\ agg_page.result.shown
    /\ agg_page.result.out.df.columns = <<"K", "V_min", "K_count">>

====
